---- MODULE Spec2Model ----
(***************************************************************************)
(* Mach-O object model (llvm-objcopy, Object.cpp) and the yaml2obj Mach-O  *)
(* emitter (MachOEmitter.cpp).                                             *)
(*                                                                         *)
(* The state machines of this module:                                      *)
(*   SpecSections, SpecCommands - the editing operations of               *)
(*                  objcopy::macho::Object                                 *)
(*   SpecWriter - one run of yaml2macho over a YamlObjectFile              *)
(* An llvm::Optional<T> is modelled as a set with at most one element.     *)
(***************************************************************************)
EXTENDS Integers, Sequences, FiniteSets, TLC

\* ------------------------------------------------------------------------
\* Bounds of the model
\* ------------------------------------------------------------------------
MaxSections == 2
MaxSymbols == 2
MaxCmds == 2
MaxRelocs == 1

\* ------------------------------------------------------------------------
\* Generic helpers
\* ------------------------------------------------------------------------
Range(s) == {s[i] : i \in DOMAIN s}

Max(S) == CHOOSE m \in S : \A x \in S : x <= m

SeqsUpTo(S, n) == UNION {[1..k -> S] : k \in 0..n}

RECURSIVE Flatten(_)
Flatten(ss) ==
  IF Len(ss) = 0 THEN <<>>
  ELSE IF Len(ss) = 1 THEN ss[1]
  ELSE Flatten(SubSeq(ss, 1, Len(ss) \div 2))
       \o Flatten(SubSeq(ss, Len(ss) \div 2 + 1, Len(ss)))

\* ------------------------------------------------------------------------
\* objcopy::macho::Object : state
\* ------------------------------------------------------------------------
VARIABLES
  Is64Bit,                     \* Object::is64Bit(): Header.Magic is a 64-bit magic
  LoadCommands,                \* std::vector<LoadCommand>
  Symbols,                     \* SymTable.Symbols
  SymTabCommandIndex,          \* Optional<size_t>
  DySymTabCommandIndex,
  DyLdInfoCommandIndex,
  DataInCodeCommandIndex,
  FunctionStartsCommandIndex,
  last                         \* history: the last call, its predicate and
                               \* what it returned

objVars == <<Is64Bit, LoadCommands, Symbols, SymTabCommandIndex,
             DySymTabCommandIndex, DyLdInfoCommandIndex,
             DataInCodeCommandIndex, FunctionStartsCommandIndex, last>>

\* ------------------------------------------------------------------------
\* yaml2macho (MachOWriter, UniversalWriter) : state
\* ------------------------------------------------------------------------
VARIABLES
  Doc,               \* the YamlObjectFile being written (never modified)
  hostLE,            \* sys::IsLittleEndianHost
  OS,                \* the bytes of the raw_ostream; OS.tell() is Len(OS)
  log,               \* history: one entry per write, with the phase issuing it
  pc,                \* the statement of the writers that runs next
  slice,             \* the loop variable i of UniversalWriter::writeMachO (+1)
  uFileStart,        \* UniversalWriter::fileStart
  fileStart,         \* MachOWriter::fileStart
  FoundLinkEditSeg,  \* MachOWriter::FoundLinkEditSeg
  Err,               \* the llvm::Error travelling to the caller, "" for success
  returned           \* what yaml2macho returned: "none" while it runs

wrVars == <<Doc, hostLE, OS, log, pc, slice, uFileStart, fileStart,
            FoundLinkEditSeg, Err, returned>>

vars == <<objVars, wrVars>>

\* The writer while the object model runs: no document, nothing written.
WriterUnused ==
  /\ Doc = <<>> /\ hostLE = TRUE /\ OS = <<>> /\ log = <<>>
  /\ pc = "unused" /\ slice = 0 /\ uFileStart = 0 /\ fileStart = 0
  /\ FoundLinkEditSeg = FALSE /\ Err = "" /\ returned = "none"

\* Character codes of the segment names used as inputs.
Name_TEXT == <<95, 95, 84, 69, 88, 84>>
Name_DATA == <<95, 95, 68, 65, 84, 65>>
Name_LINKEDIT == <<95, 95, 76, 73, 78, 75, 69, 68, 73, 84>>
\* A name that fills segname[16] and one a byte longer.
Name_16 == [i \in 1..16 |-> 64 + i]
Name_17 == [i \in 1..17 |-> 64 + i]

\* The load command types updateLoadCommandIndexes has a case for, and the
\* segment types.
SpecialKinds == {"LC_SYMTAB", "LC_DYSYMTAB", "LC_DYLD_INFO",
                 "LC_DYLD_INFO_ONLY", "LC_DATA_IN_CODE", "LC_FUNCTION_STARTS"}
SegmentKinds == {"LC_SEGMENT", "LC_SEGMENT_64"}

\* The types of the non-segment commands the operations are given: a type
\* with an index of its own, the two types that share DyLdInfoCommandIndex,
\* one more indexed type, and LC_UUID for every type without an index.
PlainKinds == {"LC_SYMTAB", "LC_DYLD_INFO", "LC_DYLD_INFO_ONLY",
               "LC_FUNCTION_STARTS", "LC_UUID"}

\* char segname[16], zero filled behind the name
SegnameField(name) == [i \in 1..16 |-> IF i <= Len(name) THEN name[i] ELSE 0]

\* SymbolEntry::section(): NO_SECT (0) means the symbol has no section.
section(S) == IF S.n_sect = 0 THEN {} ELSE {S.n_sect}

\* ------------------------------------------------------------------------
\* SymbolTable::removeSymbols : erase(remove_if(...))
\* ------------------------------------------------------------------------
\* ToRemove[i] is the predicate's answer for Syms[i].
removeSymbols(Syms, ToRemove) ==
  LET kept == SelectSeq([i \in 1..Len(Syms) |-> i], LAMBDA i : ~ToRemove[i])
  IN [j \in 1..Len(kept) |-> Syms[kept[j]]]

\* ------------------------------------------------------------------------
\* Object::updateLoadCommandIndexes
\* The loop only assigns: an index whose command type no longer occurs
\* keeps the value it had.
\* ------------------------------------------------------------------------
LastIndexOf(lcs, kinds, old) ==
  LET hits == {i \in 1..Len(lcs) : lcs[i].cmd \in kinds}
  IN IF hits = {} THEN old ELSE {Max(hits) - 1}

updateLoadCommandIndexes(lcs, idx) ==
  [SymTab         |-> LastIndexOf(lcs, {"LC_SYMTAB"}, idx.SymTab),
   DySymTab       |-> LastIndexOf(lcs, {"LC_DYSYMTAB"}, idx.DySymTab),
   DyLdInfo       |-> LastIndexOf(lcs, {"LC_DYLD_INFO", "LC_DYLD_INFO_ONLY"},
                                  idx.DyLdInfo),
   DataInCode     |-> LastIndexOf(lcs, {"LC_DATA_IN_CODE"}, idx.DataInCode),
   FunctionStarts |-> LastIndexOf(lcs, {"LC_FUNCTION_STARTS"},
                                  idx.FunctionStarts)]

Indexes == [SymTab |-> SymTabCommandIndex, DySymTab |-> DySymTabCommandIndex,
            DyLdInfo |-> DyLdInfoCommandIndex,
            DataInCode |-> DataInCodeCommandIndex,
            FunctionStarts |-> FunctionStartsCommandIndex]

NoIndexes == [SymTab |-> {}, DySymTab |-> {}, DyLdInfo |-> {},
              DataInCode |-> {}, FunctionStarts |-> {}]

SetIndexes(idx) ==
  /\ SymTabCommandIndex' = idx.SymTab
  /\ DySymTabCommandIndex' = idx.DySymTab
  /\ DyLdInfoCommandIndex' = idx.DyLdInfo
  /\ DataInCodeCommandIndex' = idx.DataInCode
  /\ FunctionStartsCommandIndex' = idx.FunctionStarts

IndexesUnchanged ==
  UNCHANGED <<SymTabCommandIndex, DySymTabCommandIndex, DyLdInfoCommandIndex,
              DataInCodeCommandIndex, FunctionStartsCommandIndex>>

\* ------------------------------------------------------------------------
\* std::stable_partition over a sequence, P[i] being the predicate's answer
\* for seq[i]: the accepted elements in order, then the others in order; It
\* is the (1-based) position of the first element of the second group.
\* ------------------------------------------------------------------------
stable_partition(seq, P) ==
  LET pos == [i \in 1..Len(seq) |-> i]
      yes == SelectSeq(pos, LAMBDA i : P[i])
      no  == SelectSeq(pos, LAMBDA i : ~P[i])
  IN [seq |-> [j \in 1..Len(seq) |-> seq[(yes \o no)[j]]],
      It  |-> Len(yes) + 1]

\* vector::erase(It, end())
erase_to_end(seq, It) == SubSeq(seq, 1, It - 1)

\* ------------------------------------------------------------------------
\* Object::removeLoadCommands
\* The predicate is given by the positions of the commands it accepts.
\* ------------------------------------------------------------------------
removeLoadCommands_keepMatching(lcs, ToRemove) ==
  LET part == stable_partition(lcs, [i \in 1..Len(lcs) |-> i \in ToRemove])
  IN erase_to_end(part.seq, part.It)

removeLoadCommands_result(lcs, ToRemove) ==
  LET part == stable_partition(lcs, [i \in 1..Len(lcs) |-> ~(i \in ToRemove)])
  IN erase_to_end(part.seq, part.It)

removeLoadCommands(ToRemove) ==
  /\ last.ret # "assert"
  /\ ToRemove \subseteq 1..Len(LoadCommands)
  /\ LoadCommands' = removeLoadCommands_result(LoadCommands, ToRemove)
  /\ SetIndexes(updateLoadCommandIndexes(LoadCommands', Indexes))
  /\ last' = [op |-> "removeLoadCommands", ToRemove |-> ToRemove,
              ret |-> "success"]
  /\ UNCHANGED <<Is64Bit, Symbols>>
  /\ UNCHANGED wrVars

\* ------------------------------------------------------------------------
\* Object::removeSections
\* The predicate is given by the set of Section objects (ids) it accepts.
\* ------------------------------------------------------------------------

\* OldIndexToSection[(*I)->Index] = I->get() for the kept sections in order:
\* a later insertion with the same key overwrites an earlier one.
RecordOldIndexes(map, kept) ==
  LET keys == {kept[j].Index : j \in 1..Len(kept)}
  IN [k \in (DOMAIN map) \cup keys |->
        IF k \in keys
          THEN kept[Max({j \in 1..Len(kept) : kept[j].Index = k})].id
          ELSE map[k]]

Renumber_fromZero(kept, NextSectionIndex) ==
  [j \in 1..Len(kept) |-> [kept[j] EXCEPT !.Index = NextSectionIndex + j - 2]]

\* (*I)->Index = NextSectionIndex++ for the kept sections in order
Renumber(kept, NextSectionIndex) ==
  [j \in 1..Len(kept) |-> [kept[j] EXCEPT !.Index = NextSectionIndex + j - 1]]

\* stable_partition by !ToRemove, then erase(It, end): the kept sections
PartitionSections(Sections, ToRemove) ==
  LET part == stable_partition(Sections,
                [j \in 1..Len(Sections) |-> ~(Sections[j].id \in ToRemove)])
  IN erase_to_end(part.seq, part.It)

\* The first loop of removeSections, from load command i on.
RECURSIVE RemoveSectionsLoop(_, _, _, _, _)
RemoveSectionsLoop(lcs, i, ToRemove, NextSectionIndex, OldIndexToSection) ==
  IF i > Len(lcs)
    THEN [LoadCommands |-> lcs, OldIndexToSection |-> OldIndexToSection]
    ELSE CHOOSE result \in UNION {
           {RemoveSectionsLoop(renumbered, i + 1, ToRemove,
                               NextSectionIndex + Len(kept), recorded) :
              renumbered \in {[lcs EXCEPT ![i].Sections =
                                 Renumber(kept, NextSectionIndex)]},
              recorded \in {RecordOldIndexes(OldIndexToSection, kept)}} :
           kept \in {PartitionSections(lcs[i].Sections, ToRemove)}} : TRUE

AllSections(lcs) == Flatten([i \in 1..Len(lcs) |-> lcs[i].Sections])

\* Section::Index of the section object with the given id
IndexOfSection(lcs, id) ==
  (CHOOSE sec \in Range(AllSections(lcs)) : sec.id = id).Index

\* the lambda IsDead of removeSections
IsDead(S, OldIndexToSection) ==
  /\ section(S) # {}
  /\ \A sec \in section(S) : ~(sec \in DOMAIN OldIndexToSection)

DeadSymbolsOf_none(Syms, OldIndexToSection) == {}

DeadSymbolsOf(Syms, OldIndexToSection) ==
  {Syms[i].id : i \in {j \in 1..Len(Syms) : IsDead(Syms[j], OldIndexToSection)}}

\* The relocation scan: some relocation of a remaining section names a
\* symbol of DeadSymbols (R.Symbol && *R.Symbol && DeadSymbols.count(...)).
RelocationHitsDead(lcs, DeadSymbols) ==
  \E i \in 1..Len(lcs) : \E j \in 1..Len(lcs[i].Sections) :
    \E k \in 1..Len(lcs[i].Sections[j].Relocations) :
      LET R == lcs[i].Sections[j].Relocations[k]
      IN /\ R.Symbol # {}
         /\ \A p \in R.Symbol : p # 0 /\ p \in DeadSymbols

RewriteSymbols_keepOld(Syms, lcs, OldIndexToSection) == Syms

\* S->n_sect = OldIndexToSection[S->n_sect]->Index, n_sect being a uint8_t
RewriteSymbols(Syms, lcs, OldIndexToSection) ==
  [i \in 1..Len(Syms) |->
     IF section(Syms[i]) # {}
       THEN [Syms[i] EXCEPT !.n_sect =
               IndexOfSection(lcs, OldIndexToSection[Syms[i].n_sect]) % 256]
       ELSE Syms[i]]

SymbolsOnReturn_removedAnyway(failed, Syms, rewritten) == rewritten

\* The error is returned in front of SymTable.removeSymbols(IsDead) and of
\* the loop rewriting n_sect, so the symbol table is as it was; on success
\* it is the rewritten one.
SymbolsOnReturn(failed, Syms, rewritten) == IF failed THEN Syms ELSE rewritten

removeSections(ToRemove) ==
  \E loop \in {RemoveSectionsLoop(LoadCommands, 1, ToRemove, 1, <<>>)} :
  \E DeadSymbols \in {DeadSymbolsOf(Symbols, loop.OldIndexToSection)} :
  \E failed \in {RelocationHitsDead(loop.LoadCommands, DeadSymbols)} :
  \E alive \in {removeSymbols(Symbols,
                  [i \in 1..Len(Symbols) |->
                     IsDead(Symbols[i], loop.OldIndexToSection)])} :
     /\ LoadCommands' = loop.LoadCommands
     /\ Symbols' = SymbolsOnReturn(failed, Symbols,
                                   RewriteSymbols(alive, loop.LoadCommands,
                                                  loop.OldIndexToSection))
     /\ last' = [op |-> "removeSections", ToRemove |-> ToRemove,
                 ret |-> IF failed THEN "invalid_argument" ELSE "success"]
     /\ IndexesUnchanged
     /\ UNCHANGED Is64Bit
     /\ UNCHANGED wrVars

\* ------------------------------------------------------------------------
\* Object::addLoadCommand, constructSegment, Object::addSegment
\* ------------------------------------------------------------------------
NewCommand(cmd) == [cmd |-> cmd, segname |-> <<>>, Sections |-> <<>>]

addLoadCommand(LC) ==
  /\ last.ret # "assert"
  /\ Len(LoadCommands) < MaxCmds
  /\ LoadCommands' = Append(LoadCommands, LC)
  /\ last' = [op |-> "addLoadCommand", ToRemove |-> {},
              ret |-> "success"]
  /\ IndexesUnchanged
  /\ UNCHANGED <<Is64Bit, Symbols>>
  /\ UNCHANGED wrVars

\* assert(SegName.size() <= sizeof(Seg.segname) && "too long segment name"),
\* negated
TooLongSegmentName(SegName) == Len(SegName) > 16

constructSegment_noName(CmdType, SegName) ==
  [cmd |-> CmdType, segname |-> [i \in 1..16 |-> 0], overflow |-> <<>>,
   Sections |-> <<>>]

\* memset(&Seg, 0, sizeof); Seg.cmd = CmdType; strncpy(Seg.segname, ...)
\* strncpy copies SegName.size() bytes: those of a name longer than segname
\* land behind the field, in the members that follow it (overflow).
constructSegment(CmdType, SegName) ==
  [cmd |-> CmdType, segname |-> SegnameField(SegName),
   overflow |-> SubSeq(SegName, 17, Len(SegName)), Sections |-> <<>>]

\* A name that is too long ends the process in a build with assertions and
\* is copied beyond the field in a build without.
addSegment(SegName) ==
  /\ last.ret # "assert"
  /\ Len(LoadCommands) < MaxCmds
  /\ \/ /\ TooLongSegmentName(SegName)
        /\ LoadCommands' = LoadCommands
        /\ last' = [op |-> "addSegment", ToRemove |-> {}, ret |-> "assert",
                    SegName |-> SegName]
     \/ /\ LoadCommands' =
             Append(LoadCommands,
                    IF Is64Bit THEN constructSegment("LC_SEGMENT_64", SegName)
                               ELSE constructSegment("LC_SEGMENT", SegName))
        /\ last' = [op |-> "addSegment", ToRemove |-> {}, ret |-> "success",
                    SegName |-> SegName]
  /\ IndexesUnchanged
  /\ UNCHANGED <<Is64Bit, Symbols>>
  /\ UNCHANGED wrVars

\* ------------------------------------------------------------------------
\* The objects the editing operations start from: what the reader builds.
\* Sections carry Index 1..n in load-command order, every symbol's n_sect is
\* 0 or the Index of a section, a relocation names a symbol of the table or
\* none, and the special-command indexes designate the last command of
\* their type.
\* ------------------------------------------------------------------------
SegmentKindOf(is64) == IF is64 THEN "LC_SEGMENT_64" ELSE "LC_SEGMENT"

\* The relocation lists of n sections: at most MaxRelocs relocations in the
\* object, at most one per section, each naming a symbol of the table, a
\* null symbol pointer (0) or no symbol.
RelocationTargets(nsym) == {{}, {0}} \cup {{s} : s \in 1..nsym}

RelocationLists(n, nsym) ==
  {relocs \in [1..n -> {<<>>} \cup
                        {<<[Symbol |-> t]>> : t \in RelocationTargets(nsym)}] :
     Cardinality({j \in 1..n : relocs[j] # <<>>}) <= MaxRelocs}

SectionObject(is64, n, k, relocs, nsects) ==
  LET secs == [j \in 1..n |->
                 [id |-> j, Index |-> j, Relocations |-> relocs[j]]]
  IN [LoadCommands |->
        <<[cmd |-> SegmentKindOf(is64), segname |-> SegnameField(Name_TEXT),
           Sections |-> SubSeq(secs, 1, k)],
          [cmd |-> SegmentKindOf(is64), segname |-> SegnameField(Name_DATA),
           Sections |-> SubSeq(secs, k + 1, n)]>>,
      Symbols |-> [i \in 1..Len(nsects) |-> [id |-> i, n_sect |-> nsects[i]]]]

CommandObject(kinds) ==
  [LoadCommands |->
     [i \in 1..Len(kinds) |->
        IF kinds[i] \in SegmentKinds
          THEN constructSegment(kinds[i], Name_TEXT)
          ELSE NewCommand(kinds[i])],
   Symbols |-> <<>>]

NoCall == [op |-> "none", ToRemove |-> {}, ret |-> "success"]

InitIndexes(lcs) ==
  LET idx == updateLoadCommandIndexes(lcs, NoIndexes)
  IN /\ SymTabCommandIndex = idx.SymTab
     /\ DySymTabCommandIndex = idx.DySymTab
     /\ DyLdInfoCommandIndex = idx.DyLdInfo
     /\ DataInCodeCommandIndex = idx.DataInCode
     /\ FunctionStartsCommandIndex = idx.FunctionStarts

SectionIds(lcs) == {AllSections(lcs)[j].id : j \in 1..Len(AllSections(lcs))}

\* Objects with sections, symbols and relocations, under removeSections and
\* removeLoadCommands.
InitSections ==
  /\ Is64Bit = TRUE
  /\ \E n \in 0..MaxSections : \E k \in 0..n :
       \E nsects \in SeqsUpTo(0..n, MaxSymbols) :
         \E relocs \in RelocationLists(n, Len(nsects)) :
           \E O \in {SectionObject(Is64Bit, n, k, relocs, nsects)} :
             /\ LoadCommands = O.LoadCommands
             /\ Symbols = O.Symbols
  /\ InitIndexes(LoadCommands)
  /\ last = NoCall
  /\ WriterUnused

NextSections ==
  \/ \E ToRemove \in SUBSET SectionIds(LoadCommands) : removeSections(ToRemove)
  \/ \E ToRemove \in SUBSET (1..Len(LoadCommands)) : removeLoadCommands(ToRemove)

SpecSections == InitSections /\ [][NextSections]_vars

\* Objects of either bitness under the load command operations.
InitCommands ==
  /\ Is64Bit \in BOOLEAN
  /\ \E kinds \in SeqsUpTo(PlainKinds \cup {SegmentKindOf(Is64Bit)}, MaxCmds) :
       \E O \in {CommandObject(kinds)} :
         /\ LoadCommands = O.LoadCommands
         /\ Symbols = O.Symbols
  /\ InitIndexes(LoadCommands)
  /\ last = NoCall
  /\ WriterUnused

NextCommands ==
  \/ \E ToRemove \in SUBSET (1..Len(LoadCommands)) : removeLoadCommands(ToRemove)
  \/ \E cmd \in PlainKinds : addLoadCommand(NewCommand(cmd))
  \/ \E SegName \in {Name_TEXT, Name_LINKEDIT, Name_16, Name_17} :
       addSegment(SegName)

SpecCommands == InitCommands /\ [][NextCommands]_vars

\* ========================================================================
\* yaml2macho: MachOWriter and UniversalWriter
\* ========================================================================
\* ------------------------------------------------------------------------
\* Bytes, integers and structs
\* A value of a negative size_t variable v stands for 2^64 + v: the result of
\* an unsigned subtraction that wrapped around.
\* ------------------------------------------------------------------------
Zeros(n) == [i \in 1..n |-> 0]

Reverse(bs) == [i \in 1..Len(bs) |-> bs[Len(bs) + 1 - i]]

\* The w bytes of the unsigned value v < 2^31, most significant first.
Sig(v, w) ==
  [i \in 1..w |-> IF w - i > 3 THEN 0
                  ELSE IF w - i = 3 THEN (v \div 16777216) % 256
                  ELSE IF w - i = 2 THEN (v \div 65536) % 256
                  ELSE IF w - i = 1 THEN (v \div 256) % 256
                  ELSE v % 256]

\* A struct member: an integer of w bytes, or a char array.
UInt(v, w) == [sig |-> Sig(v, w), arr |-> FALSE]
Word(b3, b2, b1, b0) == [sig |-> <<b3, b2, b1, b0>>, arr |-> FALSE]
Chars(bs) == [sig |-> bs, arr |-> TRUE]

\* The member as it lies in the host's memory.
InMemory(f, le) == IF f.arr \/ ~le THEN f.sig ELSE Reverse(f.sig)

\* MachO::swapStruct reverses every integer member and leaves char arrays.
MemberBytes(f, swap, le) ==
  IF swap /\ ~f.arr THEN Reverse(InMemory(f, le)) ELSE InMemory(f, le)

\* The bytes OS.write emits for a struct, swapped first when asked.
StructBytes(fields, swap, le) ==
  Flatten([i \in 1..Len(fields) |-> MemberBytes(fields[i], swap, le)])

\* size_t subtraction
USub(a, b) == a - b

\* ------------------------------------------------------------------------
\* Struct sizes and layouts (llvm/BinaryFormat/MachO.h)
\* ------------------------------------------------------------------------
SizeofMachHeader == 28
SizeofMachHeader64 == 32
SizeofLoadCommand == 8
SizeofSegmentCommand == 56
SizeofSegmentCommand64 == 72
SizeofSection == 68
SizeofSection64 == 80
SizeofSymtabCommand == 24
SizeofDyldInfoCommand == 48
SizeofDylibCommand == 24
SizeofBuildVersionCommand == 24
SizeofBuildToolVersion == 8
SizeofRelocationInfo == 8

\* The magic numbers of an image header and of a fat header.
MagicWord(magic) ==
  CASE magic = "MH_MAGIC"    -> Word(254, 237, 250, 206)
    [] magic = "MH_CIGAM"    -> Word(206, 250, 237, 254)
    [] magic = "MH_MAGIC_64" -> Word(254, 237, 250, 207)
    [] magic = "MH_CIGAM_64" -> Word(207, 250, 237, 254)
    [] magic = "FAT_MAGIC"    -> Word(202, 254, 186, 190)
    [] magic = "FAT_MAGIC_64" -> Word(202, 254, 186, 191)

\* The cmd value of a load command type.
CmdWord(cmd) ==
  CASE cmd = "LC_SEGMENT"        -> Word(0, 0, 0, 1)
    [] cmd = "LC_SYMTAB"         -> Word(0, 0, 0, 2)
    [] cmd = "LC_LOAD_DYLIB"     -> Word(0, 0, 0, 12)
    [] cmd = "LC_SEGMENT_64"     -> Word(0, 0, 0, 25)
    [] cmd = "LC_DYLD_INFO_ONLY" -> Word(128, 0, 0, 34)
    [] cmd = "LC_BUILD_VERSION"  -> Word(0, 0, 0, 50)
    [] OTHER                     -> Word(0, 0, 0, 255)

\* MachOWriter::MachOWriter: is64Bit
WriterIs64Bit(Obj) == Obj.Header.magic \in {"MH_MAGIC_64", "MH_CIGAM_64"}
\* ------------------------------------------------------------------------
\* Names: char arrays of 16 bytes and the C strings they are compared with
\* ------------------------------------------------------------------------
Name_DWARF == <<95, 95, 68, 87, 65, 82, 70>>

\* "__debug_str", "__debug_abbrev", "__debug_aranges", "__debug_ranges",
\* "__debug_pubnames", "__debug_pubtypes", "__debug_info", "__debug_line"
DebugSectionNames ==
  {<<95, 95, 100, 101, 98, 117, 103, 95, 115, 116, 114>>,
   <<95, 95, 100, 101, 98, 117, 103, 95, 97, 98, 98, 114, 101, 118>>,
   <<95, 95, 100, 101, 98, 117, 103, 95, 97, 114, 97, 110, 103, 101, 115>>,
   <<95, 95, 100, 101, 98, 117, 103, 95, 114, 97, 110, 103, 101, 115>>,
   <<95, 95, 100, 101, 98, 117, 103, 95, 112, 117, 98, 110, 97, 109, 101, 115>>,
   <<95, 95, 100, 101, 98, 117, 103, 95, 112, 117, 98, 116, 121, 112, 101, 115>>,
   <<95, 95, 100, 101, 98, 117, 103, 95, 105, 110, 102, 111>>,
   <<95, 95, 100, 101, 98, 117, 103, 95, 108, 105, 110, 101>>}

\* 0 == strncmp(&field[0], literal, 16): the characters of the array before
\* its first NUL are those of the literal.
strncmp0(field, literal) ==
  \A stop \in {CHOOSE n \in 1..17 :
                 /\ n = 17 \/ field[n] = 0
                 /\ \A m \in 1..(n - 1) : field[m] # 0} :
     SubSeq(field, 1, stop - 1) = literal

\* MachO::isVirtualSection: S_ZEROFILL, S_GB_ZEROFILL, S_THREAD_LOCAL_ZEROFILL
isVirtualSection(type) == type \in {1, 12, 18}

\* ------------------------------------------------------------------------
\* The structs the writer fills from the document. A member that counts a
\* list of the document holds its length; any other member the writer only
\* copies, and no document of the model sets, is written as 0.
\* ------------------------------------------------------------------------
HeaderFields(H) ==
  <<MagicWord(H.magic), UInt(H.cputype, 4), UInt(H.cpusubtype, 4),
    UInt(H.filetype, 4), UInt(H.ncmds, 4), UInt(H.sizeofcmds, 4),
    UInt(H.flags, 4), UInt(H.reserved, 4)>>

\* The struct HANDLE_LOAD_COMMAND selects for a command type; any type
\* without a case of its own takes the default case.
LCStruct(cmd) ==
  CASE cmd = "LC_SEGMENT"        -> "segment_command"
    [] cmd = "LC_SEGMENT_64"     -> "segment_command_64"
    [] cmd = "LC_SYMTAB"         -> "symtab_command"
    [] cmd = "LC_DYLD_INFO_ONLY" -> "dyld_info_command"
    [] cmd = "LC_LOAD_DYLIB"     -> "dylib_command"
    [] cmd = "LC_BUILD_VERSION"  -> "build_version_command"
    [] OTHER                     -> "load_command"

Sizeof(struct) ==
  CASE struct = "segment_command"       -> SizeofSegmentCommand
    [] struct = "segment_command_64"    -> SizeofSegmentCommand64
    [] struct = "symtab_command"        -> SizeofSymtabCommand
    [] struct = "dyld_info_command"     -> SizeofDyldInfoCommand
    [] struct = "dylib_command"         -> SizeofDylibCommand
    [] struct = "build_version_command" -> SizeofBuildVersionCommand
    [] struct = "load_command"          -> SizeofLoadCommand

\* LC.Data read as the struct of the command's type.
LCFields(LC) ==
  <<CmdWord(LC.cmd), UInt(LC.cmdsize, 4)>> \o
  CASE LCStruct(LC.cmd) = "segment_command" ->
         <<Chars(LC.segname), UInt(0, 4), UInt(0, 4), UInt(LC.fileoff, 4),
           UInt(LC.filesize, 4), UInt(0, 4), UInt(0, 4),
           UInt(Len(LC.Sections), 4), UInt(0, 4)>>
    [] LCStruct(LC.cmd) = "segment_command_64" ->
         <<Chars(LC.segname), UInt(0, 8), UInt(0, 8), UInt(LC.fileoff, 8),
           UInt(LC.filesize, 8), UInt(0, 4), UInt(0, 4),
           UInt(Len(LC.Sections), 4), UInt(0, 4)>>
    [] LCStruct(LC.cmd) = "symtab_command" ->
         <<UInt(LC.symoff, 4), UInt(0, 4), UInt(LC.stroff, 4), UInt(0, 4)>>
    [] LCStruct(LC.cmd) = "dyld_info_command" ->
         <<UInt(LC.rebase_off, 4), UInt(0, 4), UInt(LC.bind_off, 4),
           UInt(0, 4), UInt(LC.weak_bind_off, 4), UInt(0, 4),
           UInt(LC.lazy_bind_off, 4), UInt(0, 4), UInt(LC.export_off, 4),
           UInt(0, 4)>>
    [] LCStruct(LC.cmd) = "dylib_command" ->
         <<UInt(0, 4), UInt(0, 4), UInt(0, 4), UInt(0, 4)>>
    [] LCStruct(LC.cmd) = "build_version_command" ->
         <<UInt(0, 4), UInt(0, 4), UInt(0, 4), UInt(Len(LC.Tools), 4)>>
    [] OTHER -> <<>>

\* constructSection<SectionType>; section_64 has 8-byte addr and size and
\* the member reserved3.
SectionFields(Sec, is64) ==
  <<Chars(Sec.sectname), Chars(Sec.segname),
    UInt(Sec.addr, IF is64 THEN 8 ELSE 4),
    UInt(Sec.size, IF is64 THEN 8 ELSE 4),
    UInt(Sec.offset, 4), UInt(Sec.align, 4), UInt(Sec.reloff, 4),
    UInt(Len(Sec.relocations), 4), UInt(Sec.flags, 4), UInt(0, 4),
    UInt(0, 4)>> \o (IF is64 THEN <<UInt(0, 4)>> ELSE <<>>)

\* ------------------------------------------------------------------------
\* The calls a writer function makes on the stream, in order. Each is
\*   write          OS.write(bytes)
\*   ZeroFillBytes  ZeroFillBytes(OS, n)
\*   Fill           Fill(OS, n, 0xDEADBEEF)
\*   ZeroToOffset   ZeroToOffset(OS, n)
\*   CheckOffset    the test of lines 298-301 against Sec.offset = n
\*   Found          FoundLinkEditSeg = true
\*   emitDWARF      a DWARFYAML emitter writing bytes and returning an
\*                  error when n = 1
\* kind, lc and sec say what is written: which part of which load command
\* (position lc) and section (position sec within the command).
\* ------------------------------------------------------------------------
Op(op, kind, lc, sec, bytes, n) ==
  [op |-> op, kind |-> kind, lc |-> lc, sec |-> sec, bytes |-> bytes, n |-> n]

RECURSIVE BytesOf(_)
BytesOf(ops) ==
  IF ops = <<>> THEN 0 ELSE Len(Head(ops).bytes) + BytesOf(Tail(ops))

\* MachOWriter::writeHeader
writeHeader(Obj, le) ==
  <<Op("write", "mach_header", 0, 0,
       SubSeq(StructBytes(HeaderFields(Obj.Header), Obj.IsLittleEndian # le, le),
              1, IF WriterIs64Bit(Obj) THEN SizeofMachHeader64
                                       ELSE SizeofMachHeader), 0)>>

\* writeLoadCommandData<StructType> and writePayloadString: the writes of
\* the type-specific trailing data; BytesOf of them is the value returned.
writeLoadCommandData(LC, i, IsLittleEndian, le) ==
  CASE LCStruct(LC.cmd) \in {"segment_command", "segment_command_64"} ->
         [j \in 1..Len(LC.Sections) |->
            Op("write", "section_struct", i, j,
               StructBytes(SectionFields(LC.Sections[j],
                             LCStruct(LC.cmd) = "segment_command_64"),
                           IsLittleEndian # le, le), 0)]
    [] LCStruct(LC.cmd) = "dylib_command" ->
         IF LC.PayloadString # <<>>
           THEN <<Op("write", "PayloadString", i, 0, LC.PayloadString, 0)>>
           ELSE <<>>
    [] LCStruct(LC.cmd) = "build_version_command" ->
         [j \in 1..Len(LC.Tools) |->
            Op("write", "build_tool_version", i, j,
               StructBytes(<<UInt(LC.Tools[j].tool, 4),
                             UInt(LC.Tools[j].version, 4)>>,
                           IsLittleEndian # le, le), 0)]
    [] OTHER -> <<>>

\* BytesRemaining > 0, BytesRemaining being a size_t
BytesRemainingPositive(BytesRemaining) == BytesRemaining # 0

\* The body of the loop of MachOWriter::writeLoadCommands for LoadCommands[i].
writeLoadCommand(LC, i, IsLittleEndian, le) ==
  LET data == writeLoadCommandData(LC, i, IsLittleEndian, le)
      BytesWritten == Sizeof(LCStruct(LC.cmd)) + BytesOf(data)
                      + Len(LC.PayloadBytes) + LC.ZeroPadBytes
      BytesRemaining == USub(LC.cmdsize, BytesWritten)
  IN <<Op("write", "command_struct", i, 0,
          StructBytes(LCFields(LC), IsLittleEndian # le, le), 0)>>
     \o data
     \o (IF Len(LC.PayloadBytes) > 0
           THEN <<Op("write", "PayloadBytes", i, 0, LC.PayloadBytes, 0)>>
           ELSE <<>>)
     \o (IF LC.ZeroPadBytes > 0
           THEN <<Op("ZeroFillBytes", "ZeroPadBytes", i, 0, <<>>,
                     LC.ZeroPadBytes)>>
           ELSE <<>>)
     \o (IF BytesRemainingPositive(BytesRemaining)
           THEN <<Op("ZeroFillBytes", "BytesRemaining", i, 0, <<>>,
                     BytesRemaining)>>
           ELSE <<>>)

\* MachOWriter::writeLoadCommands
writeLoadCommands(Obj, le) ==
  Flatten([i \in 1..Len(Obj.LoadCommands) |->
             writeLoadCommand(Obj.LoadCommands[i], i, Obj.IsLittleEndian, le)])

\* ------------------------------------------------------------------------
\* The stream and the helpers that write to it.
\* A stream state w holds the bytes OS, the history log, FoundLinkEditSeg and
\* Err: "" while the function runs on, the error it returns, or "abort" when
\* the process ended inside it.
\* ctx names the caller: the phase ph, the slice, the caller's fileStart and
\* the host's byte order.
\* ------------------------------------------------------------------------
LogEntry(ctx, o, from, to) ==
  [ph |-> ctx.ph, slice |-> ctx.slice, base |-> ctx.fileStart, op |-> o.op,
   kind |-> o.kind, lc |-> o.lc, sec |-> o.sec, off |-> o.n,
   from |-> from, to |-> to]

\* OS.write(bytes)
Put(w, ctx, o, bytes) ==
  [w EXCEPT !.OS = w.OS \o bytes,
            !.log = Append(w.log, LogEntry(ctx, o, Len(w.OS),
                                        Len(w.OS) + Len(bytes)))]

Stop(w, ctx, o, err) ==
  [w EXCEPT !.Err = err,
            !.log = Append(w.log, LogEntry(ctx, o, Len(w.OS), Len(w.OS)))]

\* ZeroFillBytes: std::vector::insert of Size elements ends the process
\* (std::length_error) when Size exceeds max_size(), and every wrapped
\* (negative here) Size does.
ZeroFillBytes(w, ctx, o, Size) ==
  IF Size < 0 THEN Stop(w, ctx, o, "abort") ELSE Put(w, ctx, o, Zeros(Size))

\* Fill: Size bytes of the memory of a vector of (Size / 4) + 1 copies of
\* the uint32_t 0xDEADBEEF
Fill(w, ctx, o, Size) ==
  Put(w, ctx, o,
      SubSeq(Flatten([k \in 1..((Size \div 4) + 1) |->
                        InMemory(Word(222, 173, 190, 239), ctx.hostLE)]),
             1, Size))

ZeroToOffsetSize_whole(tell, start, Offset) ==
  IF tell - start < Offset THEN Offset ELSE 0

ZeroToOffsetSize_absolute(tell, start, Offset) ==
  IF tell < Offset THEN Offset - tell ELSE 0

\* MachOWriter::ZeroToOffset and UniversalWriter::ZeroToOffset: the number
\* of zero bytes written.
ZeroToOffsetSize(tell, start, Offset) ==
  IF tell - start < Offset THEN Offset - (tell - start) ELSE 0

OffsetsDontLineUp_absolute(tell, start, offset) ==
  tell > offset /\ offset # 0

OffsetsDontLineUp_orEqual(tell, start, offset) ==
  tell - start >= offset /\ offset # 0

\* OS.tell() - fileStart > Sec.offset && Sec.offset != (uint32_t)0
OffsetsDontLineUp(tell, start, offset) ==
  tell - start > offset /\ offset # 0

\* One call on the stream.
Exec(w, ctx, o) ==
  CASE o.op = "write" -> Put(w, ctx, o, o.bytes)
    [] o.op = "ZeroFillBytes" -> ZeroFillBytes(w, ctx, o, o.n)
    [] o.op = "Fill" -> Fill(w, ctx, o, o.n)
    [] o.op = "ZeroToOffset" ->
         Put(w, ctx, o, Zeros(ZeroToOffsetSize(Len(w.OS), ctx.fileStart, o.n)))
    [] o.op = "CheckOffset" ->
         IF OffsetsDontLineUp(Len(w.OS), ctx.fileStart, o.n)
           THEN Stop(w, ctx, o, "invalid_argument")
           ELSE w
    [] o.op = "Found" -> [w EXCEPT !.Found = TRUE]
    [] o.op = "emitDWARF" ->
         IF o.n = 1 THEN [Put(w, ctx, o, o.bytes) EXCEPT !.Err = "dwarf"]
                    ELSE Put(w, ctx, o, o.bytes)

\* The calls of ops from the i-th on, up to the first that returns an error
\* or ends the process.
RECURSIVE Run(_, _, _, _)
Run(w, ctx, ops, i) ==
  IF i > Len(ops) \/ w.Err # ""
    THEN w
    ELSE CHOOSE r \in {Run(w2, ctx, ops, i + 1) : w2 \in {Exec(w, ctx, ops[i])}} :
           TRUE

\* ------------------------------------------------------------------------
\* MachOWriter::writeSectionData
\* ------------------------------------------------------------------------

\* The DWARFYAML emitter called for a section of the __DWARF segment: which
\* bytes it writes and whether it returns an error is given with the
\* document (DWARF.out, DWARF.err); a section name without an emitter
\* writes nothing.
emitDWARF(sectname, DWARF) ==
  IF \E name \in DebugSectionNames : strncmp0(sectname, name)
    THEN DWARF
    ELSE [out |-> <<>>, err |-> FALSE]

EmitterErrReturned_dropped(err) == 0

\* if (Err) return Err: 1 when writeSectionData returns the emitter's error
EmitterErrReturned(err) == IF err THEN 1 ELSE 0

ContentFillSize_whole(size, binary_size) == size

\* Sec.size - Content.binary_size()
ContentFillSize(size, binary_size) == USub(size, binary_size)

\* The body of the loop over LC.Sections for the j-th section of command i.
writeSection(Sec, i, j, DWARF) ==
  <<Op("ZeroToOffset", "section", i, j, <<>>, Sec.offset),
    Op("CheckOffset", "section", i, j, <<>>, Sec.offset)>> \o
  (IF strncmp0(Sec.segname, Name_DWARF)
     THEN <<Op("emitDWARF", "dwarf", i, j, emitDWARF(Sec.sectname, DWARF).out,
               EmitterErrReturned(emitDWARF(Sec.sectname, DWARF).err))>>
     ELSE IF isVirtualSection(Sec.flags % 256)
       THEN <<>>
       ELSE IF Sec.content # {}
         THEN LET Content == CHOOSE c \in Sec.content : TRUE
              IN <<Op("write", "content", i, j, Content, 0),
                   Op("ZeroFillBytes", "content_fill", i, j, <<>>,
                      ContentFillSize(Sec.size, Len(Content)))>>
         ELSE <<Op("Fill", "fill", i, j, <<>>, Sec.size)>>)

\* The case LC_SEGMENT / LC_SEGMENT_64 of the loop over Obj.LoadCommands;
\* linkedit is what writeLinkEditData does when called. A command of the
\* other bitness than the image's does not occur in the documents of the
\* model, so fileoff and filesize are read from the struct they were put in.
writeSegmentData(LC, i, DWARF, linkedit) ==
  (IF strncmp0(LC.segname, Name_LINKEDIT)
     THEN <<Op("Found", "FoundLinkEditSeg", i, 0, <<>>, 0)>> \o linkedit
     ELSE <<>>)
  \o Flatten([j \in 1..Len(LC.Sections) |->
                writeSection(LC.Sections[j], i, j, DWARF)])
  \o <<Op("ZeroToOffset", "segment_end", i, 0, <<>>, LC.fileoff + LC.filesize)>>

writeSectionData(Obj, linkedit) ==
  Flatten([i \in 1..Len(Obj.LoadCommands) |->
             IF Obj.LoadCommands[i].cmd \in SegmentKinds
               THEN writeSegmentData(Obj.LoadCommands[i], i, Obj.DWARF, linkedit)
               ELSE <<>>])

\* ------------------------------------------------------------------------
\* MachOWriter::writeRelocations
\* A 32-bit word under |, << is a sequence of 32 bits, the highest first.
\* ------------------------------------------------------------------------
Bits(v) == [i \in 1..32 |-> IF i = 1 THEN 0 ELSE (v \div (2 ^ (32 - i))) % 2]

Shl(b, k) == [i \in 1..32 |-> IF i + k <= 32 THEN b[i + k] ELSE 0]

Or(a, b) == [i \in 1..32 |-> IF a[i] = 1 \/ b[i] = 1 THEN 1 ELSE 0]

WordOf(b) ==
  [sig |-> [j \in 1..4 |->
              128 * b[8 * j - 7] + 64 * b[8 * j - 6] + 32 * b[8 * j - 5]
              + 16 * b[8 * j - 4] + 8 * b[8 * j - 3] + 4 * b[8 * j - 2]
              + 2 * b[8 * j - 1] + b[8 * j]],
   arr |-> FALSE]

makeRelocationInfo_oneLayout(R, IsLE) ==
  <<UInt(R.address, 4),
    WordOf(Or(Or(Or(Or(Shl(Bits(R.symbolnum), 0), Shl(Bits(R.is_pcrel), 24)),
                    Shl(Bits(R.length), 25)),
                 Shl(Bits(R.is_extern), 27)),
              Shl(Bits(R.type), 28)))>>

makeRelocationInfo(R, IsLE) ==
  <<UInt(R.address, 4),
    IF IsLE
      THEN WordOf(Or(Or(Or(Or(Shl(Bits(R.symbolnum), 0),
                              Shl(Bits(R.is_pcrel), 24)),
                           Shl(Bits(R.length), 25)),
                        Shl(Bits(R.is_extern), 27)),
                     Shl(Bits(R.type), 28)))
      ELSE WordOf(Or(Or(Or(Or(Shl(Bits(R.symbolnum), 8),
                              Shl(Bits(R.is_pcrel), 7)),
                           Shl(Bits(R.length), 5)),
                        Shl(Bits(R.is_extern), 4)),
                     Shl(Bits(R.type), 0)))>>

\* MachO::R_SCATTERED is the highest bit of r_word0.
makeScatteredRelocationInfo(R) ==
  <<WordOf(Or(Or(Or(Or(Shl(Bits(R.address), 0), Shl(Bits(R.type), 24)),
                    Shl(Bits(R.length), 28)),
                 Shl(Bits(R.is_pcrel), 30)),
              Shl(Bits(1), 31))),
    UInt(R.value, 4)>>

writeRelocations(Obj, le) ==
  Flatten([i \in 1..Len(Obj.LoadCommands) |->
    IF Obj.LoadCommands[i].cmd \in SegmentKinds
      THEN Flatten([j \in 1..Len(Obj.LoadCommands[i].Sections) |->
             IF Obj.LoadCommands[i].Sections[j].relocations = <<>>
               THEN <<>>
               ELSE <<Op("ZeroToOffset", "relocations", i, j, <<>>,
                         Obj.LoadCommands[i].Sections[j].reloff)>> \o
                    [k \in 1..Len(Obj.LoadCommands[i].Sections[j].relocations) |->
                       Op("write", "relocation", i, j,
                          StructBytes(
                            IF Obj.LoadCommands[i].Sections[j].relocations[k].is_scattered
                              THEN makeScatteredRelocationInfo(
                                     Obj.LoadCommands[i].Sections[j].relocations[k])
                              ELSE makeRelocationInfo(
                                     Obj.LoadCommands[i].Sections[j].relocations[k],
                                     Obj.IsLittleEndian),
                            Obj.IsLittleEndian # le, le), 0)]])
      ELSE <<>>])

\* ------------------------------------------------------------------------
\* MachOWriter::writeLinkEditData and the link-edit writers
\* ------------------------------------------------------------------------
RECURSIVE encodeULEB128(_)
encodeULEB128(Value) ==
  IF Value < 128 THEN <<Value>>
  ELSE <<128 + (Value % 128)>> \o encodeULEB128(Value \div 128)

\* Value \div 128 rounds down: the arithmetic shift Value >>= 7.
RECURSIVE encodeSLEB128(_)
encodeSLEB128(Value) ==
  IF \/ (Value \div 128 = 0 /\ Value % 128 < 64)
     \/ (Value \div 128 = -1 /\ Value % 128 >= 64)
    THEN <<Value % 128>>
    ELSE <<128 + (Value % 128)>> \o encodeSLEB128(Value \div 128)

\* uint8_t OpByte = Opcode.Opcode | Opcode.Imm
OpByte(Opcode) == WordOf(Or(Bits(Opcode.Opcode), Bits(Opcode.Imm))).sig[4]

writeRebaseOpcodes(LinkEdit) ==
  Flatten([k \in 1..Len(LinkEdit.RebaseOpcodes) |->
    <<OpByte(LinkEdit.RebaseOpcodes[k])>> \o
    Flatten([d \in 1..Len(LinkEdit.RebaseOpcodes[k].ExtraData) |->
               encodeULEB128(LinkEdit.RebaseOpcodes[k].ExtraData[d])])])

writeBindOpcodes(BindOpcodes) ==
  Flatten([k \in 1..Len(BindOpcodes) |->
    <<OpByte(BindOpcodes[k])>> \o
    Flatten([d \in 1..Len(BindOpcodes[k].ULEBExtraData) |->
               encodeULEB128(BindOpcodes[k].ULEBExtraData[d])]) \o
    Flatten([d \in 1..Len(BindOpcodes[k].SLEBExtraData) |->
               encodeSLEB128(BindOpcodes[k].SLEBExtraData[d])]) \o
    (IF BindOpcodes[k].Symbol # <<>> THEN BindOpcodes[k].Symbol \o <<0>>
                                     ELSE <<>>)])

\* EXPORT_SYMBOL_FLAGS_REEXPORT is 0x08, EXPORT_SYMBOL_FLAGS_STUB_AND_RESOLVER
\* is 0x10; the child count is cast to uint8_t.
RECURSIVE dumpExportEntry(_)
dumpExportEntry(Entry) ==
  encodeSLEB128(Entry.TerminalSize) \o
  (IF Entry.TerminalSize > 0
     THEN encodeSLEB128(Entry.Flags) \o
          (IF (Entry.Flags \div 8) % 2 = 1
             THEN encodeSLEB128(Entry.Other) \o Entry.ImportName \o <<0>>
             ELSE encodeSLEB128(Entry.Address) \o
                  (IF (Entry.Flags \div 16) % 2 = 1
                     THEN encodeSLEB128(Entry.Other) ELSE <<>>))
     ELSE <<>>) \o
  <<Len(Entry.Children) % 256>> \o
  Flatten([k \in 1..Len(Entry.Children) |->
             Entry.Children[k].Name \o <<0>> \o
             encodeSLEB128(Entry.Children[k].NodeOffset)]) \o
  Flatten([k \in 1..Len(Entry.Children) |-> dumpExportEntry(Entry.Children[k])])

\* writeNListEntry<nlist_64> or <nlist> for every entry of the name list
writeNameList(Obj, le) ==
  Flatten([k \in 1..Len(Obj.LinkEdit.NameList) |->
    StructBytes(<<UInt(Obj.LinkEdit.NameList[k].n_strx, 4),
                  UInt(Obj.LinkEdit.NameList[k].n_type, 1),
                  UInt(Obj.LinkEdit.NameList[k].n_sect, 1),
                  UInt(Obj.LinkEdit.NameList[k].n_desc, 2),
                  UInt(Obj.LinkEdit.NameList[k].n_value,
                       IF WriterIs64Bit(Obj) THEN 8 ELSE 4)>>,
                Obj.IsLittleEndian # le, le)])

writeStringTable(LinkEdit) ==
  Flatten([k \in 1..Len(LinkEdit.StringTable) |->
             LinkEdit.StringTable[k] \o <<0>>])

\* (this->*writeOp.second)(OS): everything the handler writes
writeHandler(second, Obj, le) ==
  CASE second = "writeNameList"         -> writeNameList(Obj, le)
    [] second = "writeStringTable"      -> writeStringTable(Obj.LinkEdit)
    [] second = "writeRebaseOpcodes"    -> writeRebaseOpcodes(Obj.LinkEdit)
    [] second = "writeBasicBindOpcodes" ->
         writeBindOpcodes(Obj.LinkEdit.BindOpcodes)
    [] second = "writeWeakBindOpcodes"  ->
         writeBindOpcodes(Obj.LinkEdit.WeakBindOpcodes)
    [] second = "writeLazyBindOpcodes"  ->
         writeBindOpcodes(Obj.LinkEdit.LazyBindOpcodes)
    [] second = "writeExportTrie"       ->
         dumpExportEntry(Obj.LinkEdit.ExportTrie)

\* WriteQueue as the first loop of writeLinkEditData leaves it; lc is the
\* position of the command the entry comes from.
WriteQueue(Obj) ==
  Flatten([i \in 1..Len(Obj.LoadCommands) |->
    CASE Obj.LoadCommands[i].cmd = "LC_SYMTAB" ->
           <<[first |-> Obj.LoadCommands[i].symoff,
              second |-> "writeNameList", lc |-> i],
             [first |-> Obj.LoadCommands[i].stroff,
              second |-> "writeStringTable", lc |-> i]>>
      [] Obj.LoadCommands[i].cmd = "LC_DYLD_INFO_ONLY" ->
           <<[first |-> Obj.LoadCommands[i].rebase_off,
              second |-> "writeRebaseOpcodes", lc |-> i],
             [first |-> Obj.LoadCommands[i].bind_off,
              second |-> "writeBasicBindOpcodes", lc |-> i],
             [first |-> Obj.LoadCommands[i].weak_bind_off,
              second |-> "writeWeakBindOpcodes", lc |-> i],
             [first |-> Obj.LoadCommands[i].lazy_bind_off,
              second |-> "writeLazyBindOpcodes", lc |-> i],
             [first |-> Obj.LoadCommands[i].export_off,
              second |-> "writeExportTrie", lc |-> i]>>
      [] OTHER -> <<>>])

llvm_sort_queueOrder(queue, Pending) == {queue}

\* llvm::sort by a.first < b.first: every order of the queue with ascending
\* offsets. The sort is not stable, so entries with equal offsets may come
\* out in any order. Pending is the set of positions not yet placed.
RECURSIVE llvm_sort(_, _)
llvm_sort(queue, Pending) ==
  IF Pending = {} THEN {<<>>}
  ELSE UNION {{<<queue[k]>> \o rest : rest \in llvm_sort(queue, Pending \ {k})} :
                k \in {m \in Pending :
                         \A n \in Pending : queue[m].first <= queue[n].first}}

\* The second loop of writeLinkEditData over the sorted queue.
writeLinkEditData(Obj, le, sorted) ==
  Flatten([k \in 1..Len(sorted) |->
    <<Op("ZeroToOffset", sorted[k].second, sorted[k].lc, 0, <<>>,
         sorted[k].first),
      Op("write", sorted[k].second, sorted[k].lc, 0,
         writeHandler(sorted[k].second, Obj, le), 0)>>])

\* ------------------------------------------------------------------------
\* UniversalWriter::writeFatHeader, writeFatArchs
\* fat_header and fat_arch are swapped whenever the host is little-endian.
\* ------------------------------------------------------------------------
writeFatHeader(FatFile, le) ==
  <<Op("write", "fat_header", 0, 0,
       StructBytes(<<MagicWord(FatFile.Header.magic),
                     UInt(FatFile.Header.nfat_arch, 4)>>, le, le), 0)>>

writeFatArchs(FatFile, le) ==
  [k \in 1..Len(FatFile.FatArchs) |->
     Op("write", "fat_arch", k, 0,
        StructBytes(
          IF FatFile.Header.magic = "FAT_MAGIC_64"
            THEN <<UInt(FatFile.FatArchs[k].cputype, 4),
                   UInt(FatFile.FatArchs[k].cpusubtype, 4),
                   UInt(FatFile.FatArchs[k].offset, 8),
                   UInt(FatFile.FatArchs[k].size, 8),
                   UInt(FatFile.FatArchs[k].align, 4),
                   UInt(FatFile.FatArchs[k].reserved, 4)>>
            ELSE <<UInt(FatFile.FatArchs[k].cputype, 4),
                   UInt(FatFile.FatArchs[k].cpusubtype, 4),
                   UInt(FatFile.FatArchs[k].offset, 4),
                   UInt(FatFile.FatArchs[k].size, 4),
                   UInt(FatFile.FatArchs[k].align, 4)>>,
          le, le), 0)]

\* ------------------------------------------------------------------------
\* yaml2macho, UniversalWriter::writeMachO and MachOWriter::writeMachO as
\* steps: pc names the statement that runs next.
\* ------------------------------------------------------------------------
FatFile == CHOOSE f \in Doc.FatMachO : TRUE

\* The image the MachOWriter at work was constructed for.
Obj == IF Doc.MachO # {} THEN CHOOSE o \in Doc.MachO : TRUE
                         ELSE FatFile.Slices[slice]

PhaseAfter_relocationsFirst(ph, Found) ==
  CASE ph = "writeHeader"       -> "writeLoadCommands"
    [] ph = "writeLoadCommands" -> "writeRelocations"
    [] ph = "writeRelocations"  -> "writeSectionData"
    [] ph = "writeSectionData"  -> IF Found THEN "writeMachO_return"
                                            ELSE "writeLinkEditData"
    [] ph = "writeLinkEditData" -> "writeMachO_return"

\* The statement of MachOWriter::writeMachO behind the call of ph when that
\* call returned no error.
PhaseAfter(ph, Found) ==
  CASE ph = "writeHeader"       -> "writeLoadCommands"
    [] ph = "writeLoadCommands" -> "writeSectionData"
    [] ph = "writeSectionData"  -> "writeRelocations"
    [] ph = "writeRelocations"  -> IF Found THEN "writeMachO_return"
                                            ELSE "writeLinkEditData"
    [] ph = "writeLinkEditData" -> "writeMachO_return"

\* The calls ops made on the stream by the statement ph of a writer whose
\* fileStart is start; then the statement next runs, unless an error is
\* returned (it travels up to yaml2macho) or the process ended.
Calls(ph, start, ops, next) ==
  \E w \in {Run([OS |-> OS, log |-> log, Found |-> FoundLinkEditSeg, Err |-> ""],
                [ph |-> ph, slice |-> slice, fileStart |-> start,
                 hostLE |-> hostLE], ops, 1)} :
     /\ OS' = w.OS
     /\ log' = w.log
     /\ FoundLinkEditSeg' = w.Found
     /\ Err' = w.Err
     /\ pc' = IF w.Err = "abort" THEN "aborted"
              ELSE IF w.Err # "" THEN "return"
              ELSE next
     /\ UNCHANGED <<Doc, hostLE, returned>>
     /\ UNCHANGED objVars

UniversalWriter_writeMachO ==
  /\ pc = "start"
  /\ uFileStart' = Len(OS)
  /\ pc' = IF Doc.MachO # {} THEN "MachOWriter" ELSE "writeFatHeader"
  /\ UNCHANGED <<Doc, hostLE, OS, log, slice, fileStart, FoundLinkEditSeg, Err,
                 returned>>
  /\ UNCHANGED objVars

UniversalWriter_writeFatHeader ==
  /\ pc = "writeFatHeader"
  /\ \E ops \in {writeFatHeader(FatFile, hostLE)} :
       Calls("writeFatHeader", uFileStart, ops, "writeFatArchs")
  /\ UNCHANGED <<slice, uFileStart, fileStart>>

UniversalWriter_writeFatArchs ==
  /\ pc = "writeFatArchs"
  /\ \E ops \in {writeFatArchs(FatFile, hostLE)} :
       Calls("writeFatArchs", uFileStart, ops, "checkSlices")
  /\ UNCHANGED <<slice, uFileStart, fileStart>>

SlicesNotDescribed_offByOne(FatArchs, Slices) == Len(FatArchs) + 1 < Len(Slices)

\* FatFile.FatArchs.size() < FatFile.Slices.size()
SlicesNotDescribed(FatArchs, Slices) == Len(FatArchs) < Len(Slices)

\* FatFile.FatArchs[i] for the i-th slice, counted from 1: the entry, or
\* whatever lies behind the end of the vector.
FatArchAt(i) ==
  IF i <= Len(FatFile.FatArchs)
    THEN {FatFile.FatArchs[i]}
    ELSE [cputype : {0}, cpusubtype : {0}, offset : {0, 64}, size : {0, 64},
          align : {0}, reserved : {0}]

\* if (FatFile.FatArchs.size() < FatFile.Slices.size()) return the error
UniversalWriter_checkSlices ==
  /\ pc = "checkSlices"
  /\ IF SlicesNotDescribed(FatFile.FatArchs, FatFile.Slices)
       THEN /\ Err' = "invalid_argument"
            /\ pc' = "return"
            /\ slice' = slice
       ELSE /\ Err' = Err
            /\ pc' = "slices"
            /\ slice' = 1
  /\ UNCHANGED <<Doc, hostLE, OS, log, uFileStart, fileStart, FoundLinkEditSeg,
                 returned>>
  /\ UNCHANGED objVars

\* The head of the loop over the slices and ZeroToOffset(FatArchs[i].offset)
UniversalWriter_nextSlice ==
  /\ pc = "slices"
  /\ IF slice > Len(FatFile.Slices)
       THEN /\ pc' = "return"
            /\ UNCHANGED <<Doc, hostLE, OS, log, FoundLinkEditSeg, Err, returned>>
            /\ UNCHANGED objVars
       ELSE \E Arch \in FatArchAt(slice) :
            \E ops \in {<<Op("ZeroToOffset", "slice", slice, 0, <<>>,
                             Arch.offset)>>} :
              Calls("slices", uFileStart, ops, "MachOWriter")
  /\ UNCHANGED <<slice, uFileStart, fileStart>>

\* MachOWriter Writer(...); Writer.writeMachO(OS): fileStart = OS.tell()
MachOWriter_writeMachO ==
  /\ pc = "MachOWriter"
  /\ fileStart' = Len(OS)
  /\ FoundLinkEditSeg' = FALSE
  /\ pc' = "writeHeader"
  /\ UNCHANGED <<Doc, hostLE, OS, log, slice, uFileStart, Err, returned>>
  /\ UNCHANGED objVars

MachOWriter_writeHeader ==
  /\ pc = "writeHeader"
  /\ \E ops \in {writeHeader(Obj, hostLE)} :
       Calls("writeHeader", fileStart, ops,
             PhaseAfter("writeHeader", FoundLinkEditSeg))
  /\ UNCHANGED <<slice, uFileStart, fileStart>>

MachOWriter_writeLoadCommands ==
  /\ pc = "writeLoadCommands"
  /\ \E ops \in {writeLoadCommands(Obj, hostLE)} :
       Calls("writeLoadCommands", fileStart, ops,
             PhaseAfter("writeLoadCommands", FoundLinkEditSeg))
  /\ UNCHANGED <<slice, uFileStart, fileStart>>

MachOWriter_writeSectionData ==
  /\ pc = "writeSectionData"
  /\ \E sorted \in llvm_sort(WriteQueue(Obj), DOMAIN WriteQueue(Obj)) :
     \E linkedit \in {writeLinkEditData(Obj, hostLE, sorted)} :
     \E ops \in {writeSectionData(Obj, linkedit)} :
       Calls("writeSectionData", fileStart, ops,
             PhaseAfter("writeSectionData", FoundLinkEditSeg))
  /\ UNCHANGED <<slice, uFileStart, fileStart>>

MachOWriter_writeRelocations ==
  /\ pc = "writeRelocations"
  /\ \E ops \in {writeRelocations(Obj, hostLE)} :
       Calls("writeRelocations", fileStart, ops,
             PhaseAfter("writeRelocations", FoundLinkEditSeg))
  /\ UNCHANGED <<slice, uFileStart, fileStart>>

MachOWriter_writeLinkEditData ==
  /\ pc = "writeLinkEditData"
  /\ \E sorted \in llvm_sort(WriteQueue(Obj), DOMAIN WriteQueue(Obj)) :
     \E ops \in {writeLinkEditData(Obj, hostLE, sorted)} :
       Calls("writeLinkEditData", fileStart, ops,
             PhaseAfter("writeLinkEditData", FoundLinkEditSeg))
  /\ UNCHANGED <<slice, uFileStart, fileStart>>

SliceEnd_offsetOnly(Arch) == Arch.offset

\* auto SliceEnd = FatFile.FatArchs[i].offset + FatFile.FatArchs[i].size
SliceEnd(Arch) == Arch.offset + Arch.size

\* writeMachO returned success: to yaml2macho for a single image, to the
\* loop for a slice, which pads to SliceEnd and goes on.
UniversalWriter_sliceWritten ==
  /\ pc = "writeMachO_return"
  /\ IF Doc.MachO # {}
       THEN /\ pc' = "return"
            /\ slice' = slice
            /\ UNCHANGED <<Doc, hostLE, OS, log, FoundLinkEditSeg, Err, returned>>
            /\ UNCHANGED objVars
       ELSE /\ \E Arch \in FatArchAt(slice) :
               \E ops \in {<<Op("ZeroToOffset", "SliceEnd", slice, 0, <<>>,
                                SliceEnd(Arch))>>} :
                 Calls("SliceEnd", uFileStart, ops, "slices")
            /\ slice' = slice + 1
  /\ UNCHANGED <<uFileStart, fileStart>>

\* yaml2macho: false with the error handed to the handler, or true
yaml2macho ==
  /\ pc = "return"
  /\ returned' = IF Err # "" THEN "false" ELSE "true"
  /\ pc' = "done"
  /\ UNCHANGED <<Doc, hostLE, OS, log, slice, uFileStart, fileStart,
                 FoundLinkEditSeg, Err>>
  /\ UNCHANGED objVars

\* ------------------------------------------------------------------------
\* The documents yaml2macho is given
\* ------------------------------------------------------------------------
MaxPayload == 2
MaxPad == 2
MaxSlack == 2
MaxSize == 2
MaxGap == 1
MaxSlices == 2
SizeofFatHeader == 8
SizeofFatArch == 20
SizeofFatArch64 == 32

Name_text == <<95, 95, 116, 101, 120, 116>>
Name_debug_str == <<95, 95, 100, 101, 98, 117, 103, 95, 115, 116, 114>>
Name_other == <<95, 95, 111, 116, 104, 101, 114>>

BlankCommand(cmd, cmdsize) ==
  [cmd |-> cmd, cmdsize |-> cmdsize, segname |-> Zeros(16), fileoff |-> 0,
   filesize |-> 0, symoff |-> 0, stroff |-> 0, rebase_off |-> 0,
   bind_off |-> 0, weak_bind_off |-> 0, lazy_bind_off |-> 0, export_off |-> 0,
   Sections |-> <<>>, PayloadString |-> <<>>, PayloadBytes |-> <<>>,
   ZeroPadBytes |-> 0, Tools |-> <<>>]

BlankSection(segname, sectname) ==
  [sectname |-> SegnameField(sectname), segname |-> SegnameField(segname),
   addr |-> 0, size |-> 0, offset |-> 0, align |-> 0, reloff |-> 0,
   flags |-> 0, content |-> {}, relocations |-> <<>>]

Leaf(name) ==
  [TerminalSize |-> 0, Flags |-> 0, Other |-> 0, Address |-> 0,
   ImportName |-> <<>>, Name |-> name, NodeOffset |-> 0, Children |-> <<>>]

BlankLinkEdit ==
  [NameList |-> <<>>, StringTable |-> <<>>, RebaseOpcodes |-> <<>>,
   BindOpcodes |-> <<>>, WeakBindOpcodes |-> <<>>, LazyBindOpcodes |-> <<>>,
   ExportTrie |-> Leaf(<<>>)]

\* A link-edit block with something in every sub-stream.
SmallLinkEdit ==
  [NameList |-> <<[n_strx |-> 1, n_type |-> 15, n_sect |-> 1, n_desc |-> 0,
                   n_value |-> 4096]>>,
   StringTable |-> <<<<>>, <<95, 102>>>>,
   RebaseOpcodes |-> <<[Opcode |-> 16, Imm |-> 1, ExtraData |-> <<>>],
                       [Opcode |-> 32, Imm |-> 2, ExtraData |-> <<300>>]>>,
   BindOpcodes |-> <<[Opcode |-> 64, Imm |-> 0, ULEBExtraData |-> <<>>,
                      SLEBExtraData |-> <<>>, Symbol |-> <<95, 102>>],
                     [Opcode |-> 128, Imm |-> 0, ULEBExtraData |-> <<>>,
                      SLEBExtraData |-> <<-2>>, Symbol |-> <<>>]>>,
   WeakBindOpcodes |-> <<>>,
   LazyBindOpcodes |-> <<[Opcode |-> 112, Imm |-> 1, ULEBExtraData |-> <<8>>,
                          SLEBExtraData |-> <<>>, Symbol |-> <<>>]>>,
   ExportTrie |-> [Leaf(<<>>) EXCEPT
                     !.Children = <<[Leaf(<<95, 102>>) EXCEPT
                                       !.TerminalSize = 2, !.Address = 200,
                                       !.NodeOffset = 6]>>]]

NoDWARF == [out |-> <<>>, err |-> FALSE]

RECURSIVE SumCmdsize(_)
SumCmdsize(lcs) ==
  IF lcs = <<>> THEN 0 ELSE Head(lcs).cmdsize + SumCmdsize(Tail(lcs))

Image(is64, isLE, lcs, LinkEdit, DWARF) ==
  [IsLittleEndian |-> isLE,
   Header |-> [magic |-> IF is64 THEN "MH_MAGIC_64" ELSE "MH_MAGIC",
               cputype |-> 7, cpusubtype |-> 3, filetype |-> 1,
               ncmds |-> Len(lcs), sizeofcmds |-> SumCmdsize(lcs),
               flags |-> 0, reserved |-> 0],
   LoadCommands |-> lcs, LinkEdit |-> LinkEdit, DWARF |-> DWARF]

SingleImage(O) == [MachO |-> {O}, FatMachO |-> {}]

\* The position, relative to the image's start, behind the header and load
\* commands whose cmdsize is what the writer emits for them.
EndOfCommands(is64, lcs) ==
  (IF is64 THEN SizeofMachHeader64 ELSE SizeofMachHeader) + SumCmdsize(lcs)

\* A segment command of the image's bitness with the cmdsize of its struct
\* and section structs.
Segment(is64, name, Sections) ==
  [BlankCommand(SegmentKindOf(is64),
                IF is64 THEN SizeofSegmentCommand64 + Len(Sections) * SizeofSection64
                        ELSE SizeofSegmentCommand + Len(Sections) * SizeofSection)
     EXCEPT !.segname = SegnameField(name), !.Sections = Sections]

SomeBytes(n) == [k \in 1..n |-> 160 + k]

\* The state yaml2macho starts in: the stream holds Start bytes already.
WriterStarts(D, le, Start) ==
  /\ Doc = D
  /\ hostLE = le
  /\ OS = [k \in 1..Start |-> 255]
  /\ log = <<>>
  /\ pc = "start"
  /\ slice = 0
  /\ uFileStart = 0
  /\ fileStart = 0
  /\ FoundLinkEditSeg = FALSE
  /\ Err = ""
  /\ returned = "none"

\* No object of objcopy is edited while the writer runs.
ObjectUnused ==
  /\ Is64Bit = FALSE
  /\ LoadCommands = <<>>
  /\ Symbols = <<>>
  /\ InitIndexes(LoadCommands)
  /\ last = NoCall

\* Documents about load commands: one command of each struct, with and
\* without trailing data, PayloadBytes and ZeroPadBytes, its cmdsize up to
\* MaxSlack short of or beyond what is written for it, alone or in front of
\* a second command.
CommandShape(cmd, trail, npay, pad) ==
  [BlankCommand(cmd, 0) EXCEPT
     !.Sections = IF cmd = "LC_SEGMENT_64" /\ trail = 1
                    THEN <<[BlankSection(Name_TEXT, Name_text) EXCEPT
                              !.flags = 1, !.size = 4]>>
                    ELSE <<>>,
     !.segname = IF cmd = "LC_SEGMENT_64" THEN SegnameField(Name_TEXT)
                                          ELSE Zeros(16),
     !.PayloadString = IF cmd = "LC_LOAD_DYLIB" /\ trail = 1
                         THEN <<47, 97>> ELSE <<>>,
     !.Tools = IF cmd = "LC_BUILD_VERSION" /\ trail = 1
                 THEN <<[tool |-> 3, version |-> 2]>> ELSE <<>>,
     !.stroff = IF cmd = "LC_SYMTAB" THEN 1 ELSE 0,
     !.PayloadBytes = SomeBytes(npay),
     !.ZeroPadBytes = pad]

\* What writeLoadCommands writes for a command before the final zero fill.
WrittenFor(LC) ==
  Sizeof(LCStruct(LC.cmd))
  + (IF LC.cmd = "LC_SEGMENT_64" THEN Len(LC.Sections) * SizeofSection64 ELSE 0)
  + Len(LC.PayloadString) + Len(LC.Tools) * SizeofBuildToolVersion
  + Len(LC.PayloadBytes) + LC.ZeroPadBytes

InitCommandDocs ==
  \E cmd \in {"LC_UNKNOWN", "LC_SYMTAB", "LC_LOAD_DYLIB", "LC_BUILD_VERSION",
              "LC_SEGMENT_64"} :
  \E trail \in {t \in 0..1 : t = 0 \/ cmd \notin {"LC_UNKNOWN", "LC_SYMTAB"}} :
  \E npay \in 0..MaxPayload : \E pad \in 0..MaxPad :
  \E slack \in (0 - MaxSlack)..MaxSlack :
  \E second \in BOOLEAN : \E isLE \in BOOLEAN :
  \E shape \in {CommandShape(cmd, trail, npay, pad)} :
  \E LC \in {[shape EXCEPT !.cmdsize = WrittenFor(shape) + slack]} :
    WriterStarts(
      SingleImage(Image(TRUE, isLE,
                        IF second
                          THEN <<LC, [BlankCommand("LC_DYLD_INFO_ONLY",
                                                   SizeofDyldInfoCommand)
                                        EXCEPT !.rebase_off = 2, !.bind_off = 3,
                                               !.weak_bind_off = 4,
                                               !.lazy_bind_off = 5,
                                               !.export_off = 6]>>
                          ELSE <<LC>>,
                        BlankLinkEdit, NoDWARF)),
      TRUE, 0)

\* Documents about section data: a __TEXT segment of one or two sections.
\* A section has inline content up to one byte longer than its size, or no
\* content, or is virtual, or lies in the __DWARF segment under a name with
\* or without an emitter; its offset is 0 or lies from one byte before to
\* MaxGap bytes behind the end of the load commands.
SectionBodies ==
  {[kind |-> "content", size |-> s, len |-> c] :
     s \in 0..MaxSize, c \in 0..(MaxSize + 1)}
  \cup {[kind |-> "fill", size |-> s, len |-> 0] : s \in 0..MaxSize}
  \cup {[kind |-> k, size |-> MaxSize, len |-> 0] :
          k \in {"virtual", "dwarf", "dwarf_other"}}

SectionShape(body, offset) ==
  CASE body.kind = "content" ->
         [BlankSection(Name_TEXT, Name_text) EXCEPT
            !.size = body.size, !.offset = offset,
            !.content = {SomeBytes(body.len)}]
    [] body.kind = "fill" ->
         [BlankSection(Name_TEXT, Name_text) EXCEPT
            !.size = body.size, !.offset = offset]
    [] body.kind = "virtual" ->
         [BlankSection(Name_TEXT, Name_text) EXCEPT
            !.size = body.size, !.offset = offset, !.flags = 1]
    [] body.kind = "dwarf" ->
         [BlankSection(Name_DWARF, Name_debug_str) EXCEPT
            !.size = body.size, !.offset = offset]
    [] body.kind = "dwarf_other" ->
         [BlankSection(Name_DWARF, Name_other) EXCEPT
            !.size = body.size, !.offset = offset]

Gaps == {-1} \cup 0..MaxGap

InitSectionDocs ==
  \E n \in 1..2 :
  \E E \in {SizeofMachHeader64 + SizeofSegmentCommand64 + n * SizeofSection64} :
  \E b1 \in {b \in SectionBodies : b.len <= b.size + 1} :
  \E o1 \in {0} \cup {E + d : d \in Gaps} :
  \E b2 \in {b \in SectionBodies : b.len <= b.size + 1 /\ (n = 1 => b = b1)} :
  \E o2 \in {o \in {0} \cup {E + d : d \in Gaps} : n = 1 => o = o1} :
  \E filesize \in {f \in {0, E + 1} : n = 2 => f = 0} :
  \E DWARF \in {dw \in {NoDWARF, [out |-> SomeBytes(1), err |-> FALSE],
                        [out |-> SomeBytes(1), err |-> TRUE]} :
                  dw = NoDWARF \/ "dwarf" \in {b1.kind, b2.kind}} :
    /\ n = 2 => o1 \in {0, E, E + MaxGap}
    /\ WriterStarts(
         SingleImage(Image(TRUE, TRUE,
           <<[Segment(TRUE, Name_TEXT,
                      IF n = 1 THEN <<SectionShape(b1, o1)>>
                               ELSE <<SectionShape(b1, o1), SectionShape(b2, o2)>>)
                EXCEPT !.filesize = filesize]>>,
           BlankLinkEdit, DWARF)),
         TRUE, 0)

\* Documents about relocations: one or two sections of one content byte,
\* each with up to MaxRelocs relocations, plain or scattered, whose reloff
\* is 0 or lies around the end of the section data; with or without a
\* symbol table behind the relocations.
SomeRelocation(scattered, k) ==
  [address |-> 4 * k, symbolnum |-> k, is_pcrel |-> 1, length |-> 2,
   is_extern |-> 1, type |-> 10, is_scattered |-> scattered, value |-> 7]

InitRelocationDocs ==
  \E n \in 1..2 :
  \E symtab \in BOOLEAN :
  \E P \in {SizeofMachHeader64 + SizeofSegmentCommand64 + n * SizeofSection64 + n
            + (IF symtab THEN SizeofSymtabCommand ELSE 0)} :
  \E nrel \in [1..n -> 0..MaxRelocs] :
  \E reloff \in [1..n -> {0} \cup {P + d : d \in Gaps}] :
  \E scattered \in BOOLEAN : \E isLE \in BOOLEAN : \E le \in BOOLEAN :
  \E Start \in {0, 3} :
    /\ \A j \in 1..n : nrel[j] = 0 => reloff[j] = 0
    /\ WriterStarts(
         SingleImage(Image(TRUE, isLE,
           <<Segment(TRUE, Name_TEXT,
               [j \in 1..n |->
                  [BlankSection(Name_TEXT, Name_text) EXCEPT
                     !.size = 1, !.content = {SomeBytes(1)},
                     !.reloff = reloff[j],
                     !.relocations = [k \in 1..nrel[j] |->
                                        SomeRelocation(scattered, k)]]])>>
           \o (IF symtab
                 THEN <<[BlankCommand("LC_SYMTAB", SizeofSymtabCommand) EXCEPT
                           !.symoff = P + 24, !.stroff = P + 48]>>
                 ELSE <<>>),
           SmallLinkEdit, NoDWARF)),
         le, Start)

\* Documents about link-edit data: LC_SYMTAB and LC_DYLD_INFO_ONLY, each
\* present or not, with offsets around the end of the load commands, in
\* either order of symoff and stroff and of rebase_off and bind_off, the
\* two commands in either order; a __LINKEDIT segment in front of them,
\* behind them, both or nowhere.
LinkEditCommands(is64, symtab, dyld, dyldFirst, where, E, offs) ==
  LET Symtab == IF symtab
                  THEN <<[BlankCommand("LC_SYMTAB", SizeofSymtabCommand) EXCEPT
                            !.symoff = E + offs[1], !.stroff = E + offs[2]]>>
                  ELSE <<>>
      Dyld == IF dyld
                THEN <<[BlankCommand("LC_DYLD_INFO_ONLY", SizeofDyldInfoCommand)
                          EXCEPT
                          !.rebase_off = E + offs[3], !.bind_off = E + offs[4],
                          !.weak_bind_off = 0, !.lazy_bind_off = E + 40,
                          !.export_off = E + 60]>>
                ELSE <<>>
  IN (IF where \in {"first", "both"} THEN <<Segment(is64, Name_LINKEDIT, <<>>)>>
                                      ELSE <<>>)
     \o (IF dyldFirst THEN Dyld \o Symtab ELSE Symtab \o Dyld)
     \o (IF where \in {"last", "both"} THEN <<Segment(is64, Name_LINKEDIT, <<>>)>>
                                       ELSE <<>>)

InitLinkEditDocs ==
  \E is64 \in BOOLEAN : \E symtab \in BOOLEAN : \E dyld \in BOOLEAN :
  \E dyldFirst \in BOOLEAN :
  \E where \in {"none", "first", "last", "both"} :
  \E offs \in [1..4 -> {-1, 0, 20}] :
  \E Start \in {0, 3} :
  \E E \in {EndOfCommands(is64, LinkEditCommands(is64, symtab, dyld, dyldFirst,
                                                 where, 0, offs))} :
    /\ ~symtab => offs[1] = 0 /\ offs[2] = 0
    /\ ~dyld => offs[3] = 0 /\ offs[4] = 0
    /\ dyldFirst => symtab /\ dyld
    /\ WriterStarts(
         SingleImage(Image(is64, TRUE,
                           LinkEditCommands(is64, symtab, dyld, dyldFirst, where,
                                            E, offs),
                           SmallLinkEdit, NoDWARF)),
         TRUE, Start)

\* Fat documents: up to MaxSlices entries of FatArchs and up to MaxSlices
\* slices, each slice a 32-bit image of a header alone; the offset of an
\* entry lies around the end of what is in front of it, its size is 0 or one
\* byte more than the slice.
RECURSIVE ArchOffset(_, _, _, _)
ArchOffset(F, ds, szs, k) ==
  IF k = 1 THEN F + ds[1]
  ELSE ArchOffset(F, ds, szs, k - 1) + szs[k - 1] + ds[k]

FatArchsOf(F, ds, szs) ==
  [k \in DOMAIN ds |->
     [cputype |-> 7, cpusubtype |-> 3,
      offset |-> ArchOffset(F, ds, szs, k),
      size |-> szs[k], align |-> 0, reserved |-> 0]]

InitFatDocs ==
  \E magic \in {"FAT_MAGIC", "FAT_MAGIC_64"} :
  \E na \in 0..MaxSlices : \E ns \in 0..MaxSlices :
  \E ds \in [1..na -> Gaps] :
  \E szs \in [1..na -> {0, SizeofMachHeader + 1}] :
  \E le \in BOOLEAN : \E Start \in {0, 3} :
  \E F \in {SizeofFatHeader + na * (IF magic = "FAT_MAGIC_64" THEN SizeofFatArch64
                                                             ELSE SizeofFatArch)} :
    WriterStarts(
      [MachO |-> {},
       FatMachO |-> {[Header |-> [magic |-> magic, nfat_arch |-> na],
                      FatArchs |-> FatArchsOf(F, ds, szs),
                      Slices |-> [k \in 1..ns |->
                                    Image(FALSE, k = 1, <<>>, BlankLinkEdit,
                                          NoDWARF)]]}],
      le, Start)


\* Documents about the debug-section emitters: an image whose __DWARF
\* segment holds a __debug_str section with a relocation and a section with
\* content behind it, with a symbol table; its emitter succeeds or fails.
\* The image alone, or two such images as the slices of a fat file.
DwarfImage(err) ==
  LET E == SizeofMachHeader64 + SizeofSegmentCommand64 + 2 * SizeofSection64
           + SizeofSymtabCommand
  IN
    Image(TRUE, TRUE,
      <<[Segment(TRUE, Name_DWARF,
           <<[BlankSection(Name_DWARF, Name_debug_str) EXCEPT
                !.size = 1, !.offset = E, !.reloff = E + 8,
                !.relocations = <<SomeRelocation(FALSE, 1)>>],
             [BlankSection(Name_TEXT, Name_text) EXCEPT
                !.size = 1, !.offset = E + 2, !.content = {SomeBytes(1)}]>>)
           EXCEPT !.filesize = E + 4],
        [BlankCommand("LC_SYMTAB", SizeofSymtabCommand) EXCEPT
           !.symoff = E + 16, !.stroff = E + 32]>>,
      SmallLinkEdit, [out |-> SomeBytes(1), err |-> err])

InitDwarfDocs ==
  \E fat \in BOOLEAN : \E err1 \in BOOLEAN : \E err2 \in BOOLEAN :
  \E F \in {SizeofFatHeader + 2 * SizeofFatArch} :
    /\ ~fat => ~err2
    /\ WriterStarts(
         IF fat
           THEN [MachO |-> {},
                 FatMachO |-> {[Header |-> [magic |-> "FAT_MAGIC", nfat_arch |-> 2],
                                FatArchs |-> FatArchsOf(F, <<1, 1>>, <<400, 400>>),
                                Slices |-> <<DwarfImage(err1), DwarfImage(err2)>>]}]
           ELSE SingleImage(DwarfImage(err1)),
         TRUE, 0)

\* Documents about the packing of relocations: one section with one plain
\* relocation whose fields take the ends of their ranges and values between,
\* for either byte order of the image and of the host.
InitPackingDocs ==
  \E address \in {0, 4, 2147483647} :
  \E symbolnum \in {0, 1, 11259375, 16777215} :
  \E is_pcrel \in {0, 1} : \E length \in 0..3 : \E is_extern \in {0, 1} :
  \E type \in {0, 5, 10, 15} :
  \E isLE \in BOOLEAN : \E le \in BOOLEAN :
    WriterStarts(
      SingleImage(Image(TRUE, isLE,
        <<Segment(TRUE, Name_TEXT,
            <<[BlankSection(Name_TEXT, Name_text) EXCEPT
                 !.relocations =
                   <<[address |-> address, symbolnum |-> symbolnum,
                      is_pcrel |-> is_pcrel, length |-> length,
                      is_extern |-> is_extern, type |-> type,
                      is_scattered |-> FALSE, value |-> 0]>>]>>)>>,
        BlankLinkEdit, NoDWARF)),
      le, 0)

\* Documents about the export trie: a root with no child, one, two, or one
\* more than a byte counts (256); or a root whose only child has two
\* children of its own. Every node but the root is terminal.
TrieNode(k, Children) ==
  [Leaf(<<97 + (k % 26)>>) EXCEPT
     !.TerminalSize = 2, !.Address = 200 + k, !.NodeOffset = k,
     !.Children = Children]

Tries ==
  {[Leaf(<<>>) EXCEPT !.Children = [k \in 1..n |-> TrieNode(k, <<>>)]] :
     n \in {0, 1, 2, 256}}
  \cup {[Leaf(<<>>) EXCEPT
           !.Children = <<TrieNode(1, <<TrieNode(2, <<>>), TrieNode(3, <<>>)>>)>>]}

InitTrieDocs ==
  \E ExportTrie \in Tries :
  \E is64 \in BOOLEAN :
  \E E \in {EndOfCommands(is64, <<BlankCommand("LC_DYLD_INFO_ONLY",
                                                SizeofDyldInfoCommand)>>)} :
    WriterStarts(
      SingleImage(Image(is64, TRUE,
        <<[BlankCommand("LC_DYLD_INFO_ONLY", SizeofDyldInfoCommand) EXCEPT
             !.rebase_off = E, !.bind_off = E, !.weak_bind_off = E,
             !.lazy_bind_off = E, !.export_off = E + 4]>>,
        [BlankLinkEdit EXCEPT !.ExportTrie = ExportTrie], NoDWARF)),
      TRUE, 0)
InitWriter ==
  /\ \/ InitCommandDocs
     \/ InitSectionDocs
     \/ InitRelocationDocs
     \/ InitLinkEditDocs
     \/ InitFatDocs
     \/ InitDwarfDocs
     \/ InitPackingDocs
     \/ InitTrieDocs
  /\ ObjectUnused

NextWriter ==
  \/ UniversalWriter_writeMachO
  \/ UniversalWriter_writeFatHeader
  \/ UniversalWriter_writeFatArchs
  \/ UniversalWriter_checkSlices
  \/ UniversalWriter_nextSlice
  \/ MachOWriter_writeMachO
  \/ MachOWriter_writeHeader
  \/ MachOWriter_writeLoadCommands
  \/ MachOWriter_writeSectionData
  \/ MachOWriter_writeRelocations
  \/ MachOWriter_writeLinkEditData
  \/ UniversalWriter_sliceWritten
  \/ yaml2macho

SpecWriter == InitWriter /\ [][NextWriter]_vars

\* ------------------------------------------------------------------------
\* Properties of the editing operations
\* ------------------------------------------------------------------------
IdsOf(seq) == {seq[i].id : i \in 1..Len(seq)}

\* The section a symbol's n_sect names in the object lcs (a set: empty when
\* the symbol has no section or no section carries that Index).
DefiningSections(lcs, S) ==
  {sec \in Range(AllSections(lcs)) : S.n_sect # 0 /\ sec.Index = S.n_sect}

\* C1: after a call of removeSections the remaining sections, read in load
\* command order and then in-segment order, are the sections the predicate
\* did not match, in their original relative order, with Index 1, 2, ..., n.
C1_RemainingSectionsRenumbered ==
  [][last'.op = "removeSections" =>
       \A post \in {AllSections(LoadCommands')} :
       \A survivors \in {SelectSeq(AllSections(LoadCommands),
                                   LAMBDA Sec : Sec.id \notin last'.ToRemove)} :
          /\ Len(post) = Len(survivors)
          /\ \A j \in 1..Len(post) :
               /\ post[j].id = survivors[j].id
               /\ post[j].Relocations = survivors[j].Relocations
               /\ post[j].Index = j]_objVars

\* Reached: a call removed a section and a section behind it moved up.
C1_Witness ==
  /\ last.op = "removeSections"
  /\ last.ToRemove # {}
  /\ \E sec \in Range(AllSections(LoadCommands)) : sec.Index < sec.id

\* A relocation of a section the predicate keeps names a symbol whose
\* defining section the predicate matches.
SurvivingRelocationOfRemovedSymbol(lcs, Syms, ToRemove) ==
  \E sec \in Range(AllSections(lcs)) :
    /\ sec.id \notin ToRemove
    /\ \E k \in 1..Len(sec.Relocations) : \E i \in 1..Len(Syms) :
         /\ sec.Relocations[k].Symbol = {Syms[i].id}
         /\ \E def \in DefiningSections(lcs, Syms[i]) : def.id \in ToRemove

\* C2: removeSections returns the invalid-argument error whenever a
\* relocation of a surviving section references a symbol whose defining
\* section matches the predicate, and it never returns success leaving a
\* surviving relocation that points at a symbol the call deleted.
C2_DanglingRelocationRejected ==
  [][last'.op = "removeSections" =>
       /\ SurvivingRelocationOfRemovedSymbol(LoadCommands, Symbols,
                                             last'.ToRemove)
            => last'.ret = "invalid_argument"
       /\ last'.ret = "success" =>
            \A sec \in Range(AllSections(LoadCommands')) :
              \A k \in 1..Len(sec.Relocations) :
                \A p \in sec.Relocations[k].Symbol :
                  p \in IdsOf(Symbols) => p \in IdsOf(Symbols')]_objVars

\* Reached: a call was refused, and the section holding a relocation is
\* still there.
C2_Witness ==
  /\ last.op = "removeSections"
  /\ last.ret = "invalid_argument"
  /\ \E sec \in Range(AllSections(LoadCommands)) :
       \E k \in 1..Len(sec.Relocations) :
         \E p \in sec.Relocations[k].Symbol : p \in IdsOf(Symbols)

\* C3: when removeSections succeeds the symbol table holds exactly the
\* symbols that had no section or whose defining section survived, in their
\* original order, and each remaining symbol with a section has n_sect equal
\* to the new Index of the section it named before the call.
C3_SymbolsFollowSections ==
  [][(last'.op = "removeSections" /\ last'.ret = "success") =>
       \A post \in {AllSections(LoadCommands')} :
       \A expected \in {SelectSeq(Symbols, LAMBDA S :
                          \/ S.n_sect = 0
                          \/ \E def \in DefiningSections(LoadCommands, S) :
                               def.id \notin last'.ToRemove)} :
          /\ Len(Symbols') = Len(expected)
          /\ \A i \in 1..Len(expected) :
               /\ Symbols'[i].id = expected[i].id
               /\ expected[i].n_sect = 0 => Symbols'[i].n_sect = 0
               /\ expected[i].n_sect # 0 =>
                    /\ Symbols'[i].n_sect \in 1..Len(post)
                    /\ \A def \in DefiningSections(LoadCommands, expected[i]) :
                         post[Symbols'[i].n_sect].id = def.id]_objVars

\* Reached: a successful call deleted a symbol and rewrote the n_sect of a
\* symbol behind it to the new Index of its section.
C3_Witness ==
  /\ last.op = "removeSections"
  /\ last.ret = "success"
  /\ \E i \in 1..Len(Symbols) :
       /\ Symbols[i].id > i
       /\ Symbols[i].n_sect # 0
       /\ \E sec \in Range(AllSections(LoadCommands)) :
            sec.Index = Symbols[i].n_sect /\ sec.Index < sec.id

IndexConsistent(idx, kinds) ==
  /\ \A v \in idx : v + 1 \in 1..Len(LoadCommands)
                    /\ LoadCommands[v + 1].cmd \in kinds
  /\ (\E i \in 1..Len(LoadCommands) : LoadCommands[i].cmd \in kinds)
       => idx # {}

\* C4: after any sequence of addLoadCommand, addSegment and
\* removeLoadCommands every cached special-command index is consistent with
\* LoadCommands: a held index is a position of LoadCommands holding a command
\* of its type, and an index is held whenever a command of its type exists.
C4_IndexesConsistent ==
  /\ IndexConsistent(SymTabCommandIndex, {"LC_SYMTAB"})
  /\ IndexConsistent(DySymTabCommandIndex, {"LC_DYSYMTAB"})
  /\ IndexConsistent(DyLdInfoCommandIndex, {"LC_DYLD_INFO", "LC_DYLD_INFO_ONLY"})
  /\ IndexConsistent(DataInCodeCommandIndex, {"LC_DATA_IN_CODE"})
  /\ IndexConsistent(FunctionStartsCommandIndex, {"LC_FUNCTION_STARTS"})

\* C5: removeLoadCommands returns success and leaves the original sequence
\* with exactly the commands the predicate matches deleted, the others in
\* their original relative order.
C5_RemoveLoadCommandsFilters ==
  [][last'.op = "removeLoadCommands" =>
       \A keep \in {{i \in 1..Len(LoadCommands) : i \notin last'.ToRemove}} :
          /\ last'.ret = "success"
          /\ Len(LoadCommands') = Cardinality(keep)
          /\ \A j \in 1..Len(LoadCommands') :
               \E p \in keep :
                 /\ Cardinality({q \in keep : q < p}) = j - 1
                 /\ LoadCommands'[j] = LoadCommands[p]]_objVars

\* Reached: a call deleted the first of two commands of different types.
C5_Witness ==
  /\ last.op = "removeLoadCommands"
  /\ last.ToRemove = {1}
  /\ Len(LoadCommands) = 1
  /\ LoadCommands[1].cmd = "LC_SYMTAB"
\* ------------------------------------------------------------------------
\* Properties of the writers
\* ------------------------------------------------------------------------

\* The image a log entry was written for.
ImageOf(e) == IF Doc.MachO # {} THEN CHOOSE o \in Doc.MachO : TRUE
                                ELSE FatFile.Slices[e.slice]

RECURSIVE LoggedBytes(_)
LoggedBytes(entries) ==
  IF entries = <<>> THEN 0
  ELSE Head(entries).to - Head(entries).from + LoggedBytes(Tail(entries))

\* C6: for every load command, the bytes writeLoadCommands appends for it
\* (struct, trailing data, PayloadBytes, ZeroPadBytes, final zero fill) are
\* as many as its cmdsize, also when struct, trailing data, payload and pad
\* together are longer than cmdsize.
C6_CommandBytesEqualCmdsize ==
  \A i \in 1..Len(log) :
    log[i].kind = "command_struct" =>
      LoggedBytes(SelectSeq(log, LAMBDA e :
                    /\ e.ph = "writeLoadCommands"
                    /\ e.slice = log[i].slice
                    /\ e.lc = log[i].lc))
        = ImageOf(log[i]).LoadCommands[log[i].lc].cmdsize

\* What an entry writes belongs to: 1 header, 2 load commands, 3 section
\* data (with a link-edit block written from inside writeSectionData),
\* 4 relocations, 5 link-edit data; 0 for the writes of the fat writer.
ContentPhase(e) ==
  CASE e.kind = "mach_header" -> 1
    [] e.kind \in {"command_struct", "section_struct", "PayloadString",
                   "build_tool_version", "PayloadBytes", "ZeroPadBytes",
                   "BytesRemaining"} -> 2
    [] e.kind \in {"section", "dwarf", "content", "content_fill", "fill",
                   "segment_end"} -> 3
    [] e.kind \in {"relocations", "relocation"} -> 4
    [] e.kind \in {"writeNameList", "writeStringTable", "writeRebaseOpcodes",
                   "writeBasicBindOpcodes", "writeWeakBindOpcodes",
                   "writeLazyBindOpcodes", "writeExportTrie"} ->
         IF e.ph = "writeSectionData" THEN 3 ELSE 5
    [] OTHER -> 0

\* C7: a run of MachOWriter::writeMachO writes header, load commands,
\* section data, relocations and link-edit data in this order: every write
\* starts where the one before it ended, a write of an image never belongs
\* to an earlier phase than the write before it (a link-edit block written
\* for a __LINKEDIT segment counts as section data), and no step of the run
\* shortens the stream or changes a byte already written.
C7_PhasesInOrder ==
  [][/\ Len(OS') >= Len(OS)
     /\ SubSeq(OS', 1, Len(OS)) = OS
     /\ \A i \in 1..(Len(log') - 1) :
          /\ log'[i].to = log'[i + 1].from
          /\ log'[i].from <= log'[i].to
          /\ (/\ log'[i].slice = log'[i + 1].slice
              /\ ContentPhase(log'[i]) # 0
              /\ ContentPhase(log'[i + 1]) # 0)
               => ContentPhase(log'[i]) <= ContentPhase(log'[i + 1])]_wrVars

\* Reached: a finished, successful run that wrote bytes of all five phases.
C7_Witness ==
  /\ pc = "done"
  /\ returned = "true"
  /\ \A phase \in 1..5 :
       \E i \in 1..Len(log) :
         ContentPhase(log[i]) = phase /\ log[i].to > log[i].from

\* C8: for a section with a nonzero offset reached by the section-data
\* phase: when the stream, relative to fileStart, is already beyond the
\* offset, nothing more is written and writeMachO returns the
\* invalid-argument error (yaml2macho returns false); otherwise zero bytes
\* are written up to fileStart + offset, and what the section writes begins
\* there. A section with offset 0 never gives the error.
C8_SectionOffsetChecked ==
  \A i \in 1..Len(log) :
    (log[i].op = "ZeroToOffset" /\ log[i].kind = "section") =>
      IF log[i].off # 0 /\ log[i].from - log[i].base > log[i].off
        THEN /\ Len(log) = i + 1
             /\ log[i + 1].op = "CheckOffset"
             /\ log[i + 1].lc = log[i].lc /\ log[i + 1].sec = log[i].sec
             /\ Len(OS) = log[i].from
             /\ Err = "invalid_argument"
             /\ pc \in {"return", "done"}
             /\ pc = "done" => returned = "false"
        ELSE /\ i < Len(log) => log[i + 1].op # "CheckOffset"
             /\ log[i].off # 0 =>
                  /\ log[i].to = log[i].base + log[i].off
                  /\ SubSeq(OS, log[i].from + 1, log[i].to)
                       = Zeros(log[i].to - log[i].from)
                  /\ \A j \in 1..Len(log) :
                       (/\ log[j].kind \in {"dwarf", "content", "fill"}
                        /\ log[j].slice = log[i].slice
                        /\ log[j].lc = log[i].lc /\ log[j].sec = log[i].sec)
                         => log[j].from = log[i].base + log[i].off

\* Reached: the first section was padded to its offset and wrote its
\* content there, the second lies before the end of the first and the write
\* was refused.
C8_Witness ==
  /\ pc = "done"
  /\ returned = "false"
  /\ Err = "invalid_argument"
  /\ \E i \in 1..Len(log) :
       /\ log[i].kind = "section" /\ log[i].to > log[i].from
       /\ log[i + 1].kind = "content" /\ log[i + 1].to > log[i + 1].from
  /\ log[Len(log)].op = "CheckOffset"
  /\ log[Len(log)].sec = 2

\* The items with a declared offset that are written without a check: a
\* section's relocation table, a link-edit sub-stream, a fat slice.
UncheckedItem(e) ==
  /\ e.op = "ZeroToOffset"
  /\ e.kind \in {"relocations", "slice", "writeNameList", "writeStringTable",
                 "writeRebaseOpcodes", "writeBasicBindOpcodes",
                 "writeWeakBindOpcodes", "writeLazyBindOpcodes",
                 "writeExportTrie"}

\* C9 as claimed: whenever the write succeeds, every relocation table,
\* link-edit sub-stream and fat slice was written starting exactly at its
\* declared offset, relative to the start of its image or file.
C9_EveryOffsetHonoured ==
  returned = "true" =>
    \A i \in 1..Len(log) :
      UncheckedItem(log[i]) => log[i].to = log[i].base + log[i].off

\* C9 as amended: only section offsets are checked. A relocation table, a
\* link-edit sub-stream and a fat slice start, relative to the start of
\* their image or file, at the declared offset when the stream has not
\* passed it (zero bytes are written up to it), and where the stream stands
\* when it has; the item is written there and no error comes of it.
C9_OffsetReachedOrPassed ==
  \A i \in 1..Len(log) :
    UncheckedItem(log[i]) =>
      /\ log[i].to - log[i].base
           = IF log[i].from - log[i].base < log[i].off
               THEN log[i].off
               ELSE log[i].from - log[i].base
      /\ SubSeq(OS, log[i].from + 1, log[i].to) = Zeros(log[i].to - log[i].from)
      /\ i = Len(log) => log[i].kind = "slice" /\ pc \in {"MachOWriter", "writeHeader"}
      /\ i < Len(log) =>
           /\ log[i + 1].from = log[i].to
           /\ log[i + 1].op = "write"
           /\ log[i + 1].kind \in {"relocation", "mach_header", log[i].kind}

\* Reached: a successful run with a relocation table at its offset behind
\* padding, inside a stream that held bytes before, and another relocation
\* table written beyond its offset.
C9_Witness ==
  /\ returned = "true"
  /\ \E i \in 1..Len(log) :
       /\ log[i].kind = "relocations"
       /\ log[i].base > 0
       /\ log[i].to > log[i].from
       /\ log[i + 1].to > log[i + 1].from
  /\ \E i \in 1..Len(log) :
       /\ log[i].kind = "relocations"
       /\ log[i].from - log[i].base > log[i].off
       /\ log[i + 1].kind = "relocation"

\* C10: a section that is not virtual, lies outside the __DWARF segment and
\* has inline content no longer than its size gets, once its offset is
\* accepted, exactly size bytes: the content, then size - len(content) zero
\* bytes.
C10_ContentThenZeros ==
  \A i \in 1..Len(log) :
    (/\ log[i].op = "ZeroToOffset" /\ log[i].kind = "section"
     /\ ~(i < Len(log) /\ log[i + 1].op = "CheckOffset")) =>
      \A Sec \in {ImageOf(log[i]).LoadCommands[log[i].lc].Sections[log[i].sec]} :
        (/\ ~isVirtualSection(Sec.flags % 256)
         /\ ~strncmp0(Sec.segname, Name_DWARF)
         /\ \E Content \in Sec.content : Len(Content) <= Sec.size) =>
          /\ i + 2 <= Len(log)
          /\ log[i + 1].kind = "content" /\ log[i + 2].kind = "content_fill"
          /\ log[i + 1].from = log[i].to
          /\ log[i + 2].to - log[i + 1].from = Sec.size
          /\ \A Content \in Sec.content :
               SubSeq(OS, log[i + 1].from + 1, log[i + 2].to)
                 = Content \o Zeros(Sec.size - Len(Content))

\* Reached: a successful run wrote a section whose content is shorter than
\* its size, behind padding.
C10_Witness ==
  /\ pc = "done"
  /\ returned = "true"
  /\ \E i \in 1..Len(log) :
       /\ log[i].kind = "section" /\ log[i].to > log[i].from
       /\ log[i + 1].kind = "content" /\ log[i + 1].to > log[i + 1].from
       /\ log[i + 2].kind = "content_fill" /\ log[i + 2].to > log[i + 2].from

\* The byte pattern of an unwritten section: DE AD BE EF repeated.
DeadBeef(n) ==
  [k \in 1..n |-> <<222, 173, 190, 239>>[((k - 1) % 4) + 1]]

\* C11: a section that is not virtual, lies outside the __DWARF segment and
\* has no inline content gets exactly size bytes, byte i of them being byte
\* i mod 4 of DE AD BE EF, whatever the byte order of the host.
C11_FillIsDeadBeef ==
  \A i \in 1..Len(log) :
    log[i].kind = "fill" =>
      \A Sec \in {ImageOf(log[i]).LoadCommands[log[i].lc].Sections[log[i].sec]} :
        /\ log[i].to - log[i].from = Sec.size
        /\ SubSeq(OS, log[i].from + 1, log[i].to) = DeadBeef(Sec.size)

LinkEditKinds ==
  {"writeNameList", "writeStringTable", "writeRebaseOpcodes",
   "writeBasicBindOpcodes", "writeWeakBindOpcodes", "writeLazyBindOpcodes",
   "writeExportTrie"}

\* The log holds, from entry i on, one run of writeLinkEditData.
LinkEditBlockAt(i) ==
  /\ log[i].op = "ZeroToOffset" /\ log[i].kind \in LinkEditKinds
  /\ i > 1 => ~(log[i - 1].op = "write" /\ log[i - 1].kind \in LinkEditKinds)

\* C12: a run of writeLinkEditData executes the writers collected from
\* LC_SYMTAB (symbol list at symoff, string table at stroff) and from
\* LC_DYLD_INFO_ONLY (rebase, bind, weak bind, lazy bind, export trie at
\* their offsets), each once, in non-decreasing order of declared offset
\* whatever the order of the commands and of the offsets in them, and in
\* front of each writes zero bytes until the stream has reached its offset.
C12_LinkEditInOffsetOrder ==
  \A i \in 1..Len(log) :
    LinkEditBlockAt(i) =>
      \A queue \in {WriteQueue(ImageOf(log[i]))} :
        /\ i + 2 * Len(queue) - 1 <= Len(log)
        /\ \A q \in 1..Len(queue) :
             \E k \in 0..(Len(queue) - 1) :
               /\ log[i + 2 * k].kind = queue[q].second
               /\ log[i + 2 * k].lc = queue[q].lc
               /\ log[i + 2 * k].off = queue[q].first
        /\ \A k \in 0..(Len(queue) - 1) :
             /\ log[i + 2 * k].op = "ZeroToOffset"
             /\ log[i + 2 * k].kind \in LinkEditKinds
             /\ SubSeq(OS, log[i + 2 * k].from + 1, log[i + 2 * k].to)
                  = Zeros(log[i + 2 * k].to - log[i + 2 * k].from)
             /\ log[i + 2 * k].to - log[i + 2 * k].base >= log[i + 2 * k].off
             /\ log[i + 2 * k + 1].op = "write"
             /\ log[i + 2 * k + 1].kind = log[i + 2 * k].kind
             /\ log[i + 2 * k + 1].lc = log[i + 2 * k].lc
             /\ log[i + 2 * k + 1].from = log[i + 2 * k].to
             /\ k > 0 => log[i + 2 * (k - 1)].off <= log[i + 2 * k].off
             /\ \A k2 \in 0..(Len(queue) - 1) :
                  log[i + 2 * k2].kind = log[i + 2 * k].kind => k2 = k

\* Reached: LC_DYLD_INFO_ONLY stands in front of LC_SYMTAB and the string
\* table lies in front of the symbol list; the run wrote the string table
\* before the symbol list, the symbol list behind padding, and the rebase
\* opcodes, first in the queue, not first.
C12_Witness ==
  /\ returned = "true"
  /\ \E i \in 1..Len(log) :
       /\ LinkEditBlockAt(i)
       /\ WriteQueue(ImageOf(log[i]))[1].second = "writeRebaseOpcodes"
       /\ Len(WriteQueue(ImageOf(log[i]))) = 7
       /\ log[i].kind # "writeRebaseOpcodes"
       /\ \E k \in 0..6 : \E k2 \in 0..6 :
            /\ k < k2
            /\ log[i + 2 * k].kind = "writeStringTable"
            /\ log[i + 2 * k2].kind = "writeNameList"
            /\ log[i + 2 * k2].off > log[i + 2 * k].off
            /\ log[i + 2 * k2].to > log[i + 2 * k2].from

\* C13: for a fat document with more Slices than FatArchs entries,
\* UniversalWriter::writeMachO returns the invalid-argument error having
\* written the fat header and the arch table only: no byte of a slice and
\* no padding toward a slice; yaml2macho hands the error to the handler
\* and returns false.
C13_UndescribedSlicesRejected ==
  \A F \in Doc.FatMachO :
    Len(F.Slices) > Len(F.FatArchs) =>
      /\ \A i \in 1..Len(log) : log[i].kind \in {"fat_header", "fat_arch"}
      /\ pc \in {"start", "writeFatHeader", "writeFatArchs", "checkSlices",
                 "return", "done"}
      /\ pc \in {"return", "done"} =>
           /\ Err = "invalid_argument"
           /\ Len(OS) = uFileStart + SizeofFatHeader
                        + Len(F.FatArchs) * (IF F.Header.magic = "FAT_MAGIC_64"
                                               THEN SizeofFatArch64
                                               ELSE SizeofFatArch)
      /\ pc = "done" => returned = "false"
      /\ returned # "true"

\* Reached: one FatArchs entry and two slices; the entry was written and
\* yaml2macho returned false.
C13_Witness ==
  /\ pc = "done"
  /\ returned = "false"
  /\ Err = "invalid_argument"
  /\ \E F \in Doc.FatMachO : Len(F.FatArchs) = 1 /\ Len(F.Slices) = 2
  /\ \E i \in 1..Len(log) : log[i].kind = "fat_arch" /\ log[i].to > log[i].from

\* The entries of the log written for slice s, in order.
SliceEntries(s) == SelectSeq(log, LAMBDA e : e.slice = s /\ e.kind # "fat_header"
                                             /\ e.kind # "fat_arch")

\* C14: a successful fat write emits the fat header, then one arch entry for
\* each element of FatArchs in order, then for each slice in order zero
\* bytes up to FatArchs[i].offset, the image of Slices[i] written by a new
\* MachOWriter, and zero bytes up to FatArchs[i].offset + FatArchs[i].size,
\* each write starting where the one before ended; behind slice i the
\* stream, relative to the start of the file, stands at or beyond
\* FatArchs[i].offset + FatArchs[i].size.
C14_FatLayoutInOrder ==
  \A F \in Doc.FatMachO :
    (pc = "done" /\ returned = "true") =>
      \A na \in {Len(F.FatArchs)} : \A ns \in {Len(F.Slices)} :
        /\ Len(log) >= 1 + na + 3 * ns
        /\ log[1].kind = "fat_header" /\ log[1].from = uFileStart
        /\ \A k \in 1..na : log[1 + k].kind = "fat_arch" /\ log[1 + k].lc = k
        /\ \A i \in 1..(Len(log) - 1) :
             /\ log[i + 1].from = log[i].to
             /\ i > 1 + na =>
                  /\ log[i].kind \notin {"fat_header", "fat_arch"}
                  /\ log[i].slice \in 1..ns
                  /\ log[i].slice <= log[i + 1].slice
        /\ \A s \in 1..ns :
             \A entries \in {SliceEntries(s)} :
               /\ Len(entries) >= 3
               /\ entries[1].kind = "slice"
               /\ entries[1].op = "ZeroToOffset"
               /\ entries[1].base = uFileStart
               /\ entries[1].off = F.FatArchs[s].offset
               /\ SubSeq(OS, entries[1].from + 1, entries[1].to)
                    = Zeros(entries[1].to - entries[1].from)
               /\ entries[1].to - uFileStart >= F.FatArchs[s].offset
               /\ entries[2].kind = "mach_header"
               /\ \A j \in 2..(Len(entries) - 1) :
                    /\ entries[j].ph \in {"writeHeader", "writeLoadCommands",
                                          "writeSectionData", "writeRelocations",
                                          "writeLinkEditData"}
                    /\ entries[j].base = entries[1].to
               /\ entries[Len(entries)].kind = "SliceEnd"
               /\ entries[Len(entries)].op = "ZeroToOffset"
               /\ entries[Len(entries)].base = uFileStart
               /\ SubSeq(OS, entries[Len(entries)].from + 1,
                         entries[Len(entries)].to)
                    = Zeros(entries[Len(entries)].to - entries[Len(entries)].from)
               /\ entries[Len(entries)].to - uFileStart
                    >= F.FatArchs[s].offset + F.FatArchs[s].size

\* Reached: a successful write of two slices into a stream that held bytes
\* before, the second slice behind padding, the first padded to its end.
C14_Witness ==
  /\ pc = "done"
  /\ returned = "true"
  /\ uFileStart > 0
  /\ \E F \in Doc.FatMachO : Len(F.Slices) = 2 /\ Len(F.FatArchs) = 2
  /\ \E i \in 1..Len(log) :
       /\ log[i].kind = "SliceEnd" /\ log[i].slice = 1
       /\ log[i].to > log[i].from
  /\ \E i \in 1..Len(log) :
       /\ log[i].kind = "slice" /\ log[i].slice = 2
       /\ log[i].to > log[i].from

\* C15: ZeroToOffset(o) only moves forward and does nothing twice: with the
\* stream at position p relative to fileStart it writes no byte when
\* p >= o and exactly o - p zero bytes otherwise, the position behind it is
\* the larger of p and o, and a second call with the same o, made there,
\* writes nothing.
C15_ZeroToOffsetIdempotent ==
  \A i \in 1..Len(log) :
    log[i].op = "ZeroToOffset" =>
      \A p \in {log[i].from - log[i].base} : \A o \in {log[i].off} :
        /\ log[i].to - log[i].from = IF p >= o THEN 0 ELSE o - p
        /\ SubSeq(OS, log[i].from + 1, log[i].to)
             = Zeros(log[i].to - log[i].from)
        /\ log[i].to - log[i].base = Max({p, o})
        /\ ZeroToOffsetSize(log[i].to, log[i].base, o) = 0
        /\ (/\ i < Len(log)
            /\ log[i + 1].op = "ZeroToOffset"
            /\ log[i + 1].base = log[i].base
            /\ log[i + 1].off = o) => log[i + 1].to = log[i + 1].from

\* Reached: a call that wrote zero bytes up to its offset, directly followed
\* by a call with the same offset, and a call made beyond its offset.
C15_Witness ==
  /\ \E i \in 1..(Len(log) - 1) :
       /\ log[i].op = "ZeroToOffset" /\ log[i].to > log[i].from
       /\ log[i + 1].op = "ZeroToOffset"
       /\ log[i + 1].base = log[i].base /\ log[i + 1].off = log[i].off
  /\ \E i \in 1..Len(log) :
       /\ log[i].op = "ZeroToOffset"
       /\ log[i].from - log[i].base > log[i].off

\* The emitter called for the section of log entry e returns an error.
EmitterFails(e) ==
  /\ e.kind = "dwarf"
  /\ emitDWARF(ImageOf(e).LoadCommands[e.lc].Sections[e.sec].sectname,
               ImageOf(e).DWARF).err

\* C16: when the emitter called for a __DWARF section returns an error,
\* writeMachO returns that error and nothing more is written: no later
\* section, no padding to the end of the segment, no relocation, no
\* link-edit data, and in a fat write no padding to the end of the slice
\* and no later slice.
C16_EmitterErrorStopsWrite ==
  \A i \in 1..Len(log) :
    EmitterFails(log[i]) =>
      /\ i = Len(log)
      /\ Len(OS) = log[i].to
      /\ Err = "dwarf"
      /\ pc \in {"return", "done"}
      /\ pc = "done" => returned = "false"
      /\ returned # "true"

\* Reached: the first of two slices failed in its __debug_str section, in
\* front of a section with content, a relocation and a symbol table, and
\* yaml2macho returned false.
C16_Witness ==
  /\ pc = "done"
  /\ returned = "false"
  /\ Err = "dwarf"
  /\ \E F \in Doc.FatMachO :
       /\ Len(F.Slices) = 2
       /\ slice = 1
       /\ EmitterFails(log[Len(log)])
       /\ log[Len(log)].slice = 1
       /\ log[Len(log)].sec < Len(F.Slices[1].LoadCommands[log[Len(log)].lc].Sections)
       /\ \E j \in 1..2 :
            F.Slices[1].LoadCommands[log[Len(log)].lc].Sections[j].relocations # <<>>
       /\ WriteQueue(F.Slices[1]) # <<>>


\* The value of a 4-byte word of the file in the byte order of the image,
\* as its bits: bit 0 is the lowest.
WordBits(bytes, IsLE) ==
  [b \in 0..31 |->
     ((IF IsLE THEN bytes[(b \div 8) + 1] ELSE bytes[4 - (b \div 8)])
        \div (2 ^ (b % 8))) % 2]

\* The number held by bits lo..hi of a word.
RECURSIVE BitField(_, _, _)
BitField(w, lo, hi) ==
  IF hi < lo THEN 0 ELSE w[lo] + 2 * BitField(w, lo + 1, hi)

\* C17: the second word of a plain relocation holds the five fields in
\* disjoint bits placed by the byte order of the image - little-endian:
\* symbolnum 0-23, pcrel 24, length 25-26, extern 27, type 28-31;
\* big-endian: type 0-3, extern 4, length 5-6, pcrel 7, symbolnum 8-31 - so
\* that unpacking by the same layout gives every field back when
\* symbolnum < 2^24, length < 4, type < 16 and the flags are 0 or 1; the
\* first word is the address.
C17_RelocationFieldsRecovered ==
  \A i \in 1..Len(log) :
    log[i].kind = "relocation" =>
      \A Sec \in {ImageOf(log[i]).LoadCommands[log[i].lc].Sections[log[i].sec]} :
      \A IsLE \in {ImageOf(log[i]).IsLittleEndian} :
      \A k \in {j \in 1..Len(Sec.relocations) :
                  /\ i - j >= 1
                  /\ log[i - j].kind = "relocations"
                  /\ \A m \in (i - j + 1)..i : log[m].kind = "relocation"} :
      \A R \in {Sec.relocations[k]} :
        (/\ ~R.is_scattered
         /\ R.symbolnum < 16777216 /\ R.length < 4 /\ R.type < 16
         /\ R.is_pcrel \in {0, 1} /\ R.is_extern \in {0, 1}) =>
          /\ log[i].to - log[i].from = SizeofRelocationInfo
          /\ \A w0 \in {WordBits(SubSeq(OS, log[i].from + 1, log[i].from + 4), IsLE)} :
             \A w1 \in {WordBits(SubSeq(OS, log[i].from + 5, log[i].from + 8), IsLE)} :
               /\ w0 = WordBits(Reverse(UInt(R.address, 4).sig), TRUE)
               /\ IF IsLE
                    THEN /\ BitField(w1, 0, 23) = R.symbolnum
                         /\ BitField(w1, 24, 24) = R.is_pcrel
                         /\ BitField(w1, 25, 26) = R.length
                         /\ BitField(w1, 27, 27) = R.is_extern
                         /\ BitField(w1, 28, 31) = R.type
                    ELSE /\ BitField(w1, 0, 3) = R.type
                         /\ BitField(w1, 4, 4) = R.is_extern
                         /\ BitField(w1, 5, 6) = R.length
                         /\ BitField(w1, 7, 7) = R.is_pcrel
                         /\ BitField(w1, 8, 31) = R.symbolnum

\* Reached: a big-endian image written on a little-endian host with the
\* largest symbolnum, length, type and address.
C17_Witness ==
  /\ pc = "done"
  /\ returned = "true"
  /\ hostLE
  /\ \E i \in 1..Len(log) :
       /\ log[i].kind = "relocation"
       /\ log[i].to - log[i].from = SizeofRelocationInfo
       /\ ~ImageOf(log[i]).IsLittleEndian
       /\ \E R \in {ImageOf(log[i]).LoadCommands[log[i].lc]
                      .Sections[log[i].sec].relocations[1]} :
            /\ ~R.is_scattered
            /\ R.symbolnum = 16777215 /\ R.length = 3 /\ R.type = 15
            /\ R.is_pcrel = 0 /\ R.is_extern = 1
            /\ R.address = 2147483647

\* The step is a call of Object::addSegment.
AddSegmentCalled ==
  /\ last'.op = "addSegment"
  /\ LoadCommands' # LoadCommands \/ last' # last

\* What the claim says addSegment(SegName) leaves: one more command at the
\* end, LC_SEGMENT_64 or LC_SEGMENT by the object's bitness, everything but
\* cmd and segname zero, no sections, segname holding the name, cut to 16
\* bytes when longer, and zero bytes behind it; the commands before it as
\* they were.
SegmentAppended(SegName) ==
  /\ last'.ret = "success"
  /\ Len(LoadCommands') = Len(LoadCommands) + 1
  /\ SubSeq(LoadCommands', 1, Len(LoadCommands)) = LoadCommands
  /\ \A LC \in {LoadCommands'[Len(LoadCommands')]} :
       /\ LC.cmd = IF Is64Bit THEN "LC_SEGMENT_64" ELSE "LC_SEGMENT"
       /\ LC.Sections = <<>>
       /\ LC.overflow = <<>>
       /\ Len(LC.segname) = 16
       /\ \A i \in 1..16 :
            LC.segname[i] = IF i <= Len(SegName) THEN SegName[i] ELSE 0

\* C18 as claimed: every call of addSegment appends the command described,
\* a name longer than the field being truncated to it.
C18_SegmentAppendedTruncating ==
  [][AddSegmentCalled => SegmentAppended(last'.SegName)]_objVars

\* C18 as amended: a call of addSegment with a name of at most 16 bytes
\* appends the command described; a longer name is not truncated: the call
\* fails the assertion of constructSegment, or, the assertion compiled out,
\* copies the bytes behind the sixteenth over what follows segname.
C18_SegmentAppendedWhenNameFits ==
  [][AddSegmentCalled =>
       IF Len(last'.SegName) <= 16
         THEN SegmentAppended(last'.SegName)
         ELSE \/ last'.ret = "assert" /\ LoadCommands' = LoadCommands
              \/ /\ last'.ret = "success"
                 /\ LoadCommands'[Len(LoadCommands')].overflow
                      = SubSeq(last'.SegName, 17, Len(last'.SegName))]_objVars

\* Reached: a 32-bit object that held a command got a segment whose name
\* fills the field.
C18_Witness ==
  /\ last.op = "addSegment"
  /\ last.ret = "success"
  /\ last.SegName = Name_16
  /\ ~Is64Bit
  /\ Len(LoadCommands) = 2
  /\ LoadCommands[2].cmd = "LC_SEGMENT"
  /\ LoadCommands[2].segname = Name_16
  /\ LoadCommands[1].cmd = "LC_SYMTAB"

\* What the statement about to run leaves of the stream when llvm::sort
\* hands back the queue in the order sorted: the bytes, the calls made and
\* the error.
SortOutcomes ==
  {Run([OS |-> OS, log |-> log, Found |-> FoundLinkEditSeg, Err |-> ""],
       [ph |-> pc, slice |-> slice, fileStart |-> fileStart, hostLE |-> hostLE],
       IF pc = "writeLinkEditData"
         THEN writeLinkEditData(Obj, hostLE, sorted)
         ELSE writeSectionData(Obj, writeLinkEditData(Obj, hostLE, sorted)),
       1) :
     sorted \in llvm_sort(WriteQueue(Obj), DOMAIN WriteQueue(Obj))}

\* C19: the write is deterministic: from the same document and the same
\* stream every run leaves the same bytes and the same outcome, also when
\* link-edit sub-streams declare the same offset: wherever the link-edit
\* data is about to be written, all the orders the sort may return give one
\* result.
C19_EmissionDeterministic ==
  pc \in {"writeSectionData", "writeLinkEditData"} =>
    \A r1 \in SortOutcomes : \A r2 \in SortOutcomes :
      r1.OS = r2.OS /\ r1.Err = r2.Err /\ r1.log = r2.log

\* The bytes of a node in front of its child count: terminal size and, for
\* a terminal node, flags, address or import, as dumpExportEntry writes them.
TerminalInfo(Entry) ==
  encodeSLEB128(Entry.TerminalSize) \o
  (IF Entry.TerminalSize > 0
     THEN encodeSLEB128(Entry.Flags) \o
          (IF (Entry.Flags \div 8) % 2 = 1
             THEN encodeSLEB128(Entry.Other) \o Entry.ImportName \o <<0>>
             ELSE encodeSLEB128(Entry.Address) \o
                  (IF (Entry.Flags \div 16) % 2 = 1
                     THEN encodeSLEB128(Entry.Other) ELSE <<>>))
     ELSE <<>>)

\* The edge record of a child: name, NUL, SLEB128 node offset.
EdgeRecord(EE) == EE.Name \o <<0>> \o encodeSLEB128(EE.NodeOffset)

\* bytes is a node laid out as the claim says: the terminal information, one
\* byte holding the number of children, an edge record for each child in
\* order, then the subtrie of each child in order, each laid out the same
\* way, and nothing else.
RECURSIVE NodeAsClaimed(_, _)
NodeAsClaimed(bytes, Entry) ==
  \A info \in {TerminalInfo(Entry)} :
  \A edges \in {Flatten([k \in 1..Len(Entry.Children) |->
                           EdgeRecord(Entry.Children[k])])} :
  \A subs \in {[k \in 1..Len(Entry.Children) |->
                  dumpExportEntry(Entry.Children[k])]} :
    /\ Len(bytes) = Len(info) + 1 + Len(edges) + Len(Flatten(subs))
    /\ SubSeq(bytes, 1, Len(info)) = info
    /\ bytes[Len(info) + 1] = Len(Entry.Children)
    /\ SubSeq(bytes, Len(info) + 2, Len(info) + 1 + Len(edges)) = edges
    /\ \A k \in 1..Len(Entry.Children) :
         \A before \in {Len(info) + 1 + Len(edges)
                        + Len(Flatten(SubSeq(subs, 1, k - 1)))} :
           NodeAsClaimed(SubSeq(bytes, before + 1, before + Len(subs[k])),
                         Entry.Children[k])

\* C20: for every node of the export trie dumpExportEntry writes one byte
\* holding the number of its children, then that many edge records in child
\* order, then the subtries of the children in the same order, each whole
\* before the next; the byte equals the number of edge records and of
\* subtries also for a node with more than 255 children.
C20_ChildCountMatchesChildren ==
  \A i \in 1..Len(log) :
    (log[i].op = "write" /\ log[i].kind = "writeExportTrie") =>
      NodeAsClaimed(SubSeq(OS, log[i].from + 1, log[i].to),
                    ImageOf(log[i]).LinkEdit.ExportTrie)

\* Some load command of the image is a segment named __LINKEDIT.
HasLinkEditSegment(Image_) ==
  \E i \in 1..Len(Image_.LoadCommands) :
    /\ Image_.LoadCommands[i].cmd \in SegmentKinds
    /\ strncmp0(Image_.LoadCommands[i].segname, Name_LINKEDIT)

\* The log entries at which the writer of slice s began a run of
\* writeLinkEditData.
LinkEditBlocksOf(s) ==
  {i \in 1..Len(log) : log[i].slice = s /\ LinkEditBlockAt(i)}

\* C21: when MachOWriter::writeMachO returns success, writeLinkEditData has
\* run exactly once, in the section-data phase if some segment is named
\* __LINKEDIT and in the final phase otherwise, however many segments are
\* named __LINKEDIT, and FoundLinkEditSeg is true iff there is such a
\* segment. (A run over an empty queue leaves no trace, so the count is
\* taken for images with something to write.)
C21_LinkEditDataOnce ==
  pc = "writeMachO_return" =>
    /\ FoundLinkEditSeg = HasLinkEditSegment(Obj)
    /\ WriteQueue(Obj) # <<>> =>
         /\ Cardinality(LinkEditBlocksOf(slice)) = 1
         /\ \A i \in LinkEditBlocksOf(slice) :
              log[i].ph = IF HasLinkEditSegment(Obj) THEN "writeSectionData"
                                                     ELSE "writeLinkEditData"

\* A call of removeSections has just returned the invalid-argument error.
RemoveSectionsFailed ==
  last'.op = "removeSections" /\ last'.ret = "invalid_argument"

\* C22: removeSections is all-or-nothing: when it returns the
\* invalid-argument error the Object is as it was before the call; no
\* section has been erased, no section Index changed, no symbol removed and
\* no n_sect rewritten.
C22_RemoveSectionsAllOrNothing ==
  [][RemoveSectionsFailed =>
       LoadCommands' = LoadCommands /\ Symbols' = Symbols]_objVars

\* C22, as the code has it: when removeSections returns the invalid-argument
\* error no symbol has been removed and no n_sect rewritten, but the
\* sections matching the predicate have been erased from every load command
\* and the remaining ones renumbered from 1 in order, nothing else about
\* them changed.
C22_FailureKeepsSymbolsOnly ==
  [][RemoveSectionsFailed =>
       /\ Symbols' = Symbols
       /\ Len(LoadCommands') = Len(LoadCommands)
       /\ \A i \in 1..Len(LoadCommands) :
            \A kept \in {SelectSeq(LoadCommands[i].Sections,
                                   LAMBDA sec : sec.id \notin last'.ToRemove)} :
              /\ Len(LoadCommands'[i].Sections) = Len(kept)
              /\ \A j \in 1..Len(kept) :
                   [LoadCommands'[i].Sections[j] EXCEPT !.Index = 0]
                     = [kept[j] EXCEPT !.Index = 0]
              /\ [LoadCommands'[i] EXCEPT !.Sections = <<>>]
                   = [LoadCommands[i] EXCEPT !.Sections = <<>>]
       /\ \A k \in 1..Len(AllSections(LoadCommands')) :
            AllSections(LoadCommands')[k].Index = k]_objVars

\* Reached: removeSections returned the error; the sections it was to remove
\* are gone, a section remains, renumbered, and the symbol table still holds
\* a symbol of a section that no longer exists.
C22_Witness ==
  /\ last.op = "removeSections"
  /\ last.ret = "invalid_argument"
  /\ last.ToRemove # {}
  /\ \A sec \in Range(AllSections(LoadCommands)) : sec.id \notin last.ToRemove
  /\ \E sec \in Range(AllSections(LoadCommands)) : sec.Index < sec.id
  /\ \E i \in 1..Len(Symbols) :
       Symbols[i].n_sect > Len(AllSections(LoadCommands))

\* MachOWriter::writeMachO for the image O on an empty stream, the sort
\* handing back the queue in the order sorted: the stream state it leaves.
\* An error ends every later call at once, as the return statements do.
Standalone(O, le, sorted) ==
  LET ctx(ph) == [ph |-> ph, slice |-> 0, fileStart |-> 0, hostLE |-> le]
      linkedit == writeLinkEditData(O, le, sorted)
      w0 == [OS |-> <<>>, log |-> <<>>, Found |-> FALSE, Err |-> ""]
      w1 == Run(w0, ctx("writeHeader"), writeHeader(O, le), 1)
      w2 == Run(w1, ctx("writeLoadCommands"), writeLoadCommands(O, le), 1)
      w3 == Run(w2, ctx("writeSectionData"), writeSectionData(O, linkedit), 1)
      w4 == Run(w3, ctx("writeRelocations"), writeRelocations(O, le), 1)
  IN IF w4.Found THEN w4
     ELSE Run(w4, ctx("writeLinkEditData"), linkedit, 1)

\* The MachOWriter of the current image has run to its end: writeMachO
\* returned success, or its error or the end of the process came from one
\* of its calls.
WriterRanToEnd ==
  \/ pc = "writeMachO_return"
  \/ /\ pc \in {"return", "aborted"}
     /\ Err # ""
     /\ log # <<>>
     /\ log[Len(log)].ph \in {"writeHeader", "writeLoadCommands",
                              "writeSectionData", "writeRelocations",
                              "writeLinkEditData"}

\* C23: a slice is written independently of where it stands in a fat file:
\* the bytes the MachOWriter appends for Slices[i] from stream position p on
\* are the bytes it writes for the same image alone from position 0 (for one and the same
\* order handed back by the sort), and so are the outcome and
\* FoundLinkEditSeg.
C23_SlicePositionIndependent ==
  (WriterRanToEnd /\ Doc.MachO = {}) =>
    \E sorted \in llvm_sort(WriteQueue(Obj), DOMAIN WriteQueue(Obj)) :
      \E alone \in {Standalone(Obj, hostLE, sorted)} :
        /\ SubSeq(OS, fileStart + 1, Len(OS)) = alone.OS
        /\ Err = alone.Err
        /\ FoundLinkEditSeg = alone.Found

\* Reached: the second slice of a fat file, begun behind the first, has been
\* written with success, with zero padding up to a section offset counted
\* from the start of the slice, and with link-edit data.
C23_Witness ==
  /\ pc = "writeMachO_return"
  /\ Doc.MachO = {}
  /\ slice = 2
  /\ fileStart > 0
  /\ \E i \in 1..Len(log) :
       /\ log[i].slice = 2 /\ log[i].base = fileStart
       /\ log[i].op = "write" /\ log[i].kind \in LinkEditKinds
       /\ log[i].to > log[i].from
  /\ \E i \in 1..Len(log) :
       /\ log[i].slice = 2 /\ log[i].base = fileStart
       /\ log[i].op = "ZeroToOffset" /\ log[i].kind = "section"
       /\ log[i].to > log[i].from
       /\ log[i].from > log[i].off

\* The bytes written as the body of section sec of load command lc by the
\* writer of slice s: inline content, the zero fill behind it, or the
\* 0xDEADBEEF fill.
PayloadBytesOf(s, lc, sec) ==
  LoggedBytes(SelectSeq(log, LAMBDA e :
    /\ e.slice = s /\ e.lc = lc /\ e.sec = sec
    /\ e.ph = "writeSectionData"
    /\ e.kind \in {"content", "content_fill", "fill"}))

\* C24: for a section that is not virtual and lies outside the __DWARF
\* segment the section-data phase never appends more body bytes than the
\* section's size, whatever the length of its inline content, also when the
\* content is longer than the size.
C24_PayloadWithinSize ==
  \A i \in 1..Len(log) :
    (log[i].ph = "writeSectionData"
       /\ log[i].kind \in {"content", "content_fill", "fill"}) =>
      \A Sec \in {ImageOf(log[i]).LoadCommands[log[i].lc].Sections[log[i].sec]} :
        (~isVirtualSection(Sec.flags % 256)
           /\ ~strncmp0(Sec.segname, Name_DWARF)) =>
          PayloadBytesOf(log[i].slice, log[i].lc, log[i].sec) <= Sec.size
====
